---- MODULE Spec2Model ----
(***************************************************************************)
(* Model of the Octave stock-data core: the kline aggregator of            *)
(* app/crud.py, the period upserts of scrape.py and scraper.py, and the     *)
(* financial-table tokenizer and label matcher of scrape.py.                *)
(*                                                                          *)
(* Conventions.  A Python value that may be None is a sequence of length    *)
(* at most one: None is <<>> and a present value v is <<v>>.  Prices and    *)
(* statement values are integers; the floats parsed from table text are     *)
(* decimals [m, e] standing for m / 10^e.  Strings are TLA+ strings,        *)
(* handled character by character with Len, SubSeq and \o.                  *)
(***************************************************************************)
EXTENDS Integers, Sequences, FiniteSets, TLC

None == <<>>
Some(v) == <<v>>
IsNone(x) == x = <<>>
NotNone(x) == x # <<>>
Val(x) == x[1]

Max2(a, b) == IF a >= b THEN a ELSE b
Min2(a, b) == IF a <= b THEN a ELSE b

Reverse(s) == [i \in 1..Len(s) |-> s[Len(s) + 1 - i]]

(***************************************************************************)
(* Characters and strings                                                   *)
(***************************************************************************)
Digits == <<"0", "1", "2", "3", "4", "5", "6", "7", "8", "9">>

CharAt(s, i) == SubSeq(s, i, i)

IsDigit(c) == \E i \in 1..10 : Digits[i] = c

DigitVal(c) == (CHOOSE i \in 1..10 : Digits[i] = c) - 1

AllDigits(s) == Len(s) > 0 /\ \A i \in 1..Len(s) : IsDigit(CharAt(s, i))

RECURSIVE StrToInt(_)
StrToInt(s) ==
    IF Len(s) = 0 THEN 0
    ELSE 10 * StrToInt(SubSeq(s, 1, Len(s) - 1)) + DigitVal(CharAt(s, Len(s)))

\* f"{n:02d}" and strftime's %m, %d
Pad2(n) == IF n < 10 THEN "0" \o ToString(n) ELSE ToString(n)

\* strftime's %Y for the years of the model (four digits)
Pad4(n) == ToString(n)

(***************************************************************************)
(* Calendar arithmetic, as datetime computes it                             *)
(***************************************************************************)
IsLeap(y) == y % 4 = 0 /\ (y % 100 # 0 \/ y % 400 = 0)

DaysInMonth(y, m) ==
    IF m = 2 THEN (IF IsLeap(y) THEN 29 ELSE 28)
    ELSE IF m \in {4, 6, 9, 11} THEN 30 ELSE 31

DaysBeforeYear(y) ==
    LET p == y - 1 IN 365 * p + (p \div 4) - (p \div 100) + (p \div 400)

RECURSIVE DaysBeforeMonth(_, _)
DaysBeforeMonth(y, m) ==
    IF m = 1 THEN 0 ELSE DaysBeforeMonth(y, m - 1) + DaysInMonth(y, m - 1)

\* date.toordinal(): 0001-01-01 is day 1
Ymd2Ord(y, m, d) == DaysBeforeYear(y) + DaysBeforeMonth(y, m) + d

ValidYmd(y, m, d) ==
    /\ y >= 1 /\ y <= 9999
    /\ m >= 1 /\ m <= 12
    /\ d >= 1 /\ d <= DaysInMonth(y, m)

\* First Monday-based ISO week of a year (datetime._isoweek1monday)
IsoWeek1Monday(y) ==
    LET firstday == Ymd2Ord(y, 1, 1)
        firstweekday == (firstday + 6) % 7
        week1monday == firstday - firstweekday
    IN IF firstweekday > 3 THEN week1monday + 7 ELSE week1monday

\* date.isocalendar(): <<ISO year, ISO week, ISO weekday>>
IsoCalendar(y, m, d) ==
    LET today == Ymd2Ord(y, m, d)
        w1 == IsoWeek1Monday(y)
        week == (today - w1) \div 7
    IN IF today < w1
       THEN LET w0 == IsoWeek1Monday(y - 1)
            IN <<y - 1, ((today - w0) \div 7) + 1, ((today - w0) % 7) + 1>>
       ELSE IF week >= 52 /\ today >= IsoWeek1Monday(y + 1)
            THEN <<y + 1, 1, ((today - IsoWeek1Monday(y + 1)) % 7) + 1>>
            ELSE <<y, week + 1, ((today - w1) % 7) + 1>>

\* Days from 0001-01-01 to the Unix epoch 1970-01-01
EpochOrd == 719163

\* Year, month and day of an ordinal, searched in the years of the model
OrdYear(ord) == CHOOSE y \in 1970..2100 :
                    DaysBeforeYear(y) < ord /\ ord <= DaysBeforeYear(y + 1)

OrdMonth(ord) ==
    LET y == OrdYear(ord)
        n == ord - DaysBeforeYear(y)
    IN CHOOSE m \in 1..12 :
          DaysBeforeMonth(y, m) < n /\ n <= DaysBeforeMonth(y, m) + DaysInMonth(y, m)

OrdDay(ord) ==
    LET y == OrdYear(ord)
    IN ord - DaysBeforeYear(y) - DaysBeforeMonth(y, OrdMonth(ord))

IsoFormat(y, m, d) == Pad4(y) \o "-" \o Pad2(m) \o "-" \o Pad2(d)

(***************************************************************************)
(* Character order, case mapping and substring search                       *)
(***************************************************************************)
\* The characters of the model in ASCII order
Alphabet == " %&(),-./0123456789ABCDEFGHIJKLMNOPQRSTUVWXYZabcdefghijklmnopqrstuvwxyz"

UpperChars == "ABCDEFGHIJKLMNOPQRSTUVWXYZ"
LowerChars == "abcdefghijklmnopqrstuvwxyz"

CharOrd(c) == CHOOSE i \in 1..Len(Alphabet) : CharAt(Alphabet, i) = c

IsUpperChar(c) == \E i \in 1..26 : CharAt(UpperChars, i) = c
IsLowerChar(c) == \E i \in 1..26 : CharAt(LowerChars, i) = c
IsAlpha(c) == IsUpperChar(c) \/ IsLowerChar(c)

LowerChar(c) ==
    IF IsUpperChar(c)
    THEN CharAt(LowerChars, CHOOSE i \in 1..26 : CharAt(UpperChars, i) = c)
    ELSE c

UpperChar(c) ==
    IF IsLowerChar(c)
    THEN CharAt(UpperChars, CHOOSE i \in 1..26 : CharAt(LowerChars, i) = c)
    ELSE c

RECURSIVE StrLower(_)
StrLower(s) ==
    IF Len(s) = 0 THEN ""
    ELSE LowerChar(CharAt(s, 1)) \o StrLower(SubSeq(s, 2, Len(s)))

RECURSIVE StrUpper(_)
StrUpper(s) ==
    IF Len(s) = 0 THEN ""
    ELSE UpperChar(CharAt(s, 1)) \o StrUpper(SubSeq(s, 2, Len(s)))

\* Python's `t in s` for strings
StrContains(s, t) ==
    \E i \in 1..(Len(s) - Len(t) + 1) : SubSeq(s, i, i + Len(t) - 1) = t

StartsWith(s, t) == Len(t) <= Len(s) /\ SubSeq(s, 1, Len(t)) = t

\* Python's s < t for strings (code-point order)
RECURSIVE StrLess(_, _)
StrLess(s, t) ==
    IF Len(t) = 0 THEN FALSE
    ELSE IF Len(s) = 0 THEN TRUE
    ELSE IF CharAt(s, 1) = CharAt(t, 1)
         THEN StrLess(SubSeq(s, 2, Len(s)), SubSeq(t, 2, Len(t)))
         ELSE CharOrd(CharAt(s, 1)) < CharOrd(CharAt(t, 1))

StrLessEq(s, t) == s = t \/ StrLess(s, t)

(***************************************************************************)
(* Kline aggregation (app/crud.py) and its feed (populate_klines.py)        *)
(***************************************************************************)
\* _safe_float: float(val), 0.0 when val is None
_safe_float(val) == IF IsNone(val) THEN 0 ELSE Val(val)

\* _INTERVAL_MAP
_INTERVAL_MAP ==
    <<  <<"1d", "day">>, <<"daily", "day">>, <<"day", "day">>,
        <<"1w", "week">>, <<"weekly", "week">>, <<"week", "week">>,
        <<"1m", "month">>, <<"monthly", "month">>, <<"month", "month">>,
        <<"1y", "year">>, <<"yearly", "year">>, <<"year", "year">> >>

\* _get_aggregation_key: _INTERVAL_MAP.get(interval.lower(), "day")
_get_aggregation_key(interval) ==
    LET low == StrLower(interval)
    IN IF \E i \in 1..Len(_INTERVAL_MAP) : _INTERVAL_MAP[i][1] = low
       THEN _INTERVAL_MAP[CHOOSE i \in 1..Len(_INTERVAL_MAP) : _INTERVAL_MAP[i][1] = low][2]
       ELSE "day"

\* datetime.strptime(date_str, "%Y-%m-%d"): <<y, m, d>>, or None on ValueError
StrptimeYmd(s) ==
    IF /\ Len(s) = 10
       /\ CharAt(s, 5) = "-" /\ CharAt(s, 8) = "-"
       /\ AllDigits(SubSeq(s, 1, 4)) /\ AllDigits(SubSeq(s, 6, 7))
       /\ AllDigits(SubSeq(s, 9, 10))
       /\ ValidYmd(StrToInt(SubSeq(s, 1, 4)), StrToInt(SubSeq(s, 6, 7)),
                   StrToInt(SubSeq(s, 9, 10)))
    THEN Some(<<StrToInt(SubSeq(s, 1, 4)), StrToInt(SubSeq(s, 6, 7)),
                StrToInt(SubSeq(s, 9, 10))>>)
    ELSE None

\* datetime.strptime(date_str, "%m/%d/%Y"): <<y, m, d>>, or None on ValueError
StrptimeMdY(s) ==
    IF /\ Len(s) = 10
       /\ CharAt(s, 3) = "/" /\ CharAt(s, 6) = "/"
       /\ AllDigits(SubSeq(s, 1, 2)) /\ AllDigits(SubSeq(s, 4, 5))
       /\ AllDigits(SubSeq(s, 7, 10))
       /\ ValidYmd(StrToInt(SubSeq(s, 7, 10)), StrToInt(SubSeq(s, 1, 2)),
                   StrToInt(SubSeq(s, 4, 5)))
    THEN Some(<<StrToInt(SubSeq(s, 7, 10)), StrToInt(SubSeq(s, 1, 2)),
                StrToInt(SubSeq(s, 4, 5))>>)
    ELSE None

\* _get_group_key whose week number is not zero-padded
_get_group_key_NoPad(date_str, agg_key) ==
    LET dt == Val(StrptimeYmd(date_str))
        iso == IsoCalendar(dt[1], dt[2], dt[3])
    IN IF agg_key = "week" THEN ToString(iso[1]) \o "-W" \o ToString(iso[2])
       ELSE IF agg_key = "month" THEN Pad4(dt[1]) \o "-" \o Pad2(dt[2])
       ELSE IF agg_key = "year" THEN Pad4(dt[1])
       ELSE date_str

\* _get_group_key whose week key has the calendar year, not the ISO year
_get_group_key_CalendarYear(date_str, agg_key) ==
    LET dt == IF NotNone(StrptimeYmd(date_str)) THEN Val(StrptimeYmd(date_str))
              ELSE Val(StrptimeMdY(date_str))
        iso == IsoCalendar(dt[1], dt[2], dt[3])
    IN IF agg_key = "week" THEN Pad4(dt[1]) \o "-W" \o Pad2(iso[2])
       ELSE IF agg_key = "month" THEN Pad4(dt[1]) \o "-" \o Pad2(dt[2])
       ELSE IF agg_key = "year" THEN Pad4(dt[1])
       ELSE date_str

\* _get_group_key for a date string in the %Y-%m-%d format or, failing
\* that, in the %m/%d/%Y format
_get_group_key(date_str, agg_key) ==
    LET dt == IF NotNone(StrptimeYmd(date_str)) THEN Val(StrptimeYmd(date_str))
              ELSE Val(StrptimeMdY(date_str))
        iso == IsoCalendar(dt[1], dt[2], dt[3])
    IN IF agg_key = "week" THEN ToString(iso[1]) \o "-W" \o Pad2(iso[2])
       ELSE IF agg_key = "month" THEN Pad4(dt[1]) \o "-" \o Pad2(dt[2])
       ELSE IF agg_key = "year" THEN Pad4(dt[1])
       ELSE date_str

\* timestamp_to_date, on the day number of the epoch-millisecond timestamp
timestamp_to_date(t) ==
    LET ord == EpochOrd + t
    IN IsoFormat(OrdYear(ord), OrdMonth(ord), OrdDay(ord))

(***************************************************************************)
(* State                                                                    *)
(***************************************************************************)
VARIABLES
    daily_klines,   \* table daily_klines: the rows in ORDER BY date ASC order
    kline_call      \* the last get_stock_kline call: arguments, rows read, result

kline_vars == <<daily_klines, kline_call>>

VARIABLES
    tables,   \* income_statements, balance_sheets, cash_flows, stock_ratios
    run,      \* the scraper run in progress: its session and its position
    runs      \* number of runs started

upsert_vars == <<tables, run, runs>>

VARIABLES
    fin_text,   \* the text of one financial table, line by line
    fin_table,  \* the table _parse_fin_table returned for it, once parsed
    fin_get,    \* the last _get call on the table: arguments and result
    fin_periods \* the records _parse_income_periods returned for the text

table_vars == <<fin_text, fin_table, fin_get, fin_periods>>

VARIABLES
    merge_run,  \* one scrape_all_financials call: pages fetched, all_periods
    norm_call   \* the last call of a value normalizer: token and outcome

VARIABLES
    batch,      \* one run of a batch runner over its list of symbols
    pool,       \* scrape_one invocations of a thread pool, and the stocks table
    snapshot,   \* table stock_ratios of one stock under save_statistics
    session     \* one pipeline invocation, its session and the database

runner_vars == <<batch, pool, snapshot, session>>

pipeline_vars == <<merge_run, norm_call, runner_vars>>

vars == <<daily_klines, kline_call, tables, run, runs,
          fin_text, fin_table, fin_get, fin_periods, merge_run, norm_call,
          batch, pool, snapshot, session>>

\* What a scrape_all_financials call leaves alone
OutsideMerge == <<kline_vars, upsert_vars, table_vars, norm_call, runner_vars>>

\* What the batch runners, the pool, save_statistics and one pipeline
\* invocation leave alone
OutsideBatch ==
    <<kline_vars, upsert_vars, table_vars, merge_run, norm_call, pool, snapshot, session>>

OutsidePool ==
    <<kline_vars, upsert_vars, table_vars, merge_run, norm_call, batch, snapshot, session>>

OutsideSnapshot ==
    <<kline_vars, upsert_vars, table_vars, merge_run, norm_call, batch, pool, session>>

OutsideSession ==
    <<kline_vars, upsert_vars, table_vars, merge_run, norm_call, batch, pool, snapshot>>

\* What a call of a normalizer leaves alone
OutsideNorm == <<kline_vars, upsert_vars, table_vars, merge_run, runner_vars>>

\* No scrape_all_financials call
NoMerge == [ pc |-> "idle" ]

\* No normalizer called
NoNorm == [ fn |-> "" ]

\* No batch runner started
NoBatch == [ pc |-> "idle" ]

\* No thread pool started
NoPool == [ pc |-> "idle" ]

\* Table stock_ratios empty, no call of its writers yet
NoSnapshot == [ rows |-> <<>>, call |-> [fn |-> ""] ]

\* The database of the pipelines: stocks, the rows that reference them, and
\* the sequence of stocks.id
EmptyDb == [ stocks |-> {}, rows |-> {}, seq |-> 1 ]

\* No pipeline invocation yet
NoSession ==
    [ pc |-> "idle", pipeline |-> "", n |-> 0, symbol |-> None, stock |-> None,
      next |-> 1, written |-> <<>>, db |-> EmptyDb, start |-> EmptyDb,
      raised |-> "", escaped |-> FALSE, result |-> "" ]

\* The variables of the scrapers and runners, at rest
PipelineIdle ==
    /\ merge_run = NoMerge
    /\ norm_call = NoNorm
    /\ batch = NoBatch
    /\ pool = NoPool
    /\ snapshot = NoSnapshot
    /\ session = NoSession

\* No _get call yet
NoGet == [ called |-> FALSE ]

\* Largest number of scraper runs
MaxRuns == 2

Kinds == {"income", "balance", "cashflow", "ratio"}

EmptyTables == [kind \in Kinds |-> <<>>]

\* No scraper run has a session open
NoRun == [ pc |-> "idle", pipeline |-> "none", stock_id |-> 0, symbol |-> "",
           arg |-> <<>>, fin |-> <<>>, rat |-> <<>>, ok |-> TRUE,
           saved |-> <<>> ]


\* Largest number of rows of daily_klines
MaxRows == 3
\* Largest limit of a kline request
MaxLimit == 2

\* The stocks table (Stock.id, Stock.symbol)
Stocks == << [id |-> 1, symbol |-> "Mtnn"], [id |-> 2, symbol |-> "UBA"] >>

\* Stock ids of a request: a stock of the table and an unknown id
StockIds == {1, 3}

\* The symbol of STOCK_CODES whose feed is modelled
FeedSymbol == "MTNN"

\* _resolve_stock: the Stock with this id, or None
_resolve_stock(stock_id) ==
    IF \E i \in 1..Len(Stocks) : Stocks[i].id = stock_id
    THEN Some(Stocks[CHOOSE i \in 1..Len(Stocks) : Stocks[i].id = stock_id])
    ELSE None

\* Day numbers (days since 1970-01-01) of the feed's timestamps:
\* 2022-12-30, 2024-12-27, 2024-12-30, 2025-01-02, 2025-02-03
FeedDays == {19356, 20084, 20087, 20090, 20122}

\* o/h/l/c/v of the feed's candles; a missing key is None
QuoteA == [o |-> Some(2), h |-> Some(4), l |-> Some(1), c |-> Some(3), v |-> Some(5)]

QuoteB == [o |-> Some(3), h |-> Some(5), l |-> Some(2), c |-> Some(4), v |-> None]

NoOpen == [o |-> None, h |-> Some(9), l |-> Some(0), c |-> Some(8), v |-> Some(100)]

NoHigh == [o |-> Some(8), h |-> None, l |-> Some(0), c |-> Some(8), v |-> Some(100)]

NoLow == [o |-> Some(8), h |-> Some(9), l |-> None, c |-> Some(8), v |-> Some(100)]

NoClose == [o |-> Some(8), h |-> Some(9), l |-> Some(0), c |-> None, v |-> Some(100)]

\* The candles the feed may hold for a day: two complete ones, and two that
\* lack a price
FeedQuotes(t) ==
    {QuoteA, QuoteB} \cup
    ( IF t = 20084 THEN {NoOpen, NoHigh}
      ELSE IF t = 20087 THEN {NoLow, NoClose}
      ELSE IF t = 20090 THEN {NoOpen, NoClose}
      ELSE {NoHigh, NoLow} )

\* One candle of the feed: {"t": ..., "o": ..., "h": ..., "l": ..., "c": ..., "v": ...}
FeedKlines ==
    UNION { { [t |-> t, o |-> q.o, h |-> q.h, l |-> q.l, c |-> q.c, v |-> q.v] :
                q \in FeedQuotes(t) } : t \in FeedDays }

\* Interval strings of a request
Intervals == {"1D", "week", "Monthly", "1y", "hour"}

\* The DailyKline record populate_klines builds from one candle of the feed
KlineRecord(symbol, kline) ==
    [ symbol |-> symbol,
      date   |-> timestamp_to_date(kline.t),
      open   |-> kline.o,
      high   |-> kline.h,
      low    |-> kline.l,
      close  |-> kline.c,
      volume |-> kline.v,
      rsi    |-> None ]

\* The positions at which a row may sit in the date-ordered table
InsertPositions(table, row) ==
    { i \in 1..(Len(table) + 1) :
        /\ \A j \in 1..(i - 1) : StrLessEq(table[j].date, row.date)
        /\ \A j \in i..Len(table) : StrLessEq(row.date, table[j].date) }

InsertAt(table, i, row) ==
    SubSeq(table, 1, i - 1) \o <<row>> \o SubSeq(table, i, Len(table))

\* SELECT ... WHERE symbol = :symbol ORDER BY date ASC
SelectBySymbol(table, symbol) == SelectSeq(table, LAMBDA r : r.symbol = symbol)

(***************************************************************************)
(* get_stock_kline                                                          *)
(***************************************************************************)
\* The candle of one daily row (interval day)
DayCandle(r) ==
    [ date   |-> r.date,
      open   |-> _safe_float(r.open),
      high   |-> _safe_float(r.high),
      low    |-> _safe_float(r.low),
      close  |-> _safe_float(r.close),
      volume |-> _safe_float(r.volume) ]

\* tail = daily_results[-limit:] if len(daily_results) > limit else daily_results
DayTail(daily_results, limit) ==
    IF Len(daily_results) > limit
    THEN SubSeq(daily_results, Len(daily_results) - limit + 1, Len(daily_results))
    ELSE daily_results

\* DayKlines that filters before it slices
DayKlines_FilterFirst(daily_results, limit) ==
    LET kept == SelectSeq(daily_results, LAMBDA r : NotNone(r.open) /\ NotNone(r.close))
        tail == Reverse(DayTail(kept, limit))
    IN [i \in 1..Len(tail) |-> DayCandle(tail[i])]

\* The day branch: slice, reverse, filter on open and close
DayKlines(daily_results, limit) ==
    LET tail == DayTail(daily_results, limit)
        kept == SelectSeq(Reverse(tail), LAMBDA r : NotNone(r.open) /\ NotNone(r.close))
    IN [i \in 1..Len(kept) |-> DayCandle(kept[i])]

\* SkipsRow that tests open and close only
SkipsRow_OpenClose(r) == IsNone(r.open) \/ IsNone(r.close)

\* A row is skipped when open, high, low or close is None
SkipsRow(r) == IsNone(r.open) \/ IsNone(r.high) \/ IsNone(r.low) \/ IsNone(r.close)

\* r.volume or 0
VolumeOrZero(r) == IF IsNone(r.volume) \/ r.volume = Some(0) THEN Some(0) ELSE r.volume

\* The group a first row opens
NewGroup(key, r) ==
    [ key    |-> key,
      date   |-> r.date,
      open   |-> _safe_float(r.open),
      high   |-> _safe_float(r.high),
      low    |-> _safe_float(r.low),
      close  |-> _safe_float(r.close),
      volume |-> _safe_float(VolumeOrZero(r)) ]

\* UpdateGroup that leaves close at the first row's close
UpdateGroup_KeepClose(g, r) ==
    [ g EXCEPT !.high   = Max2(g.high, _safe_float(r.high)),
               !.low    = Min2(g.low, _safe_float(r.low)),
               !.volume = g.volume + _safe_float(VolumeOrZero(r)) ]

\* The group after a further row
UpdateGroup(g, r) ==
    [ g EXCEPT !.high   = Max2(g.high, _safe_float(r.high)),
               !.low    = Min2(g.low, _safe_float(r.low)),
               !.close  = _safe_float(r.close),
               !.volume = g.volume + _safe_float(VolumeOrZero(r)) ]

\* The loop over daily_results: groups in group_order
RECURSIVE AggregateRows(_, _, _)
AggregateRows(rows, agg_key, groups) ==
    IF rows = <<>> THEN groups
    ELSE LET r == Head(rows)
             key == _get_group_key(r.date, agg_key)
         IN IF SkipsRow(r)
            THEN AggregateRows(Tail(rows), agg_key, groups)
            ELSE IF \E i \in 1..Len(groups) : groups[i].key = key
                 THEN LET i == CHOOSE i \in 1..Len(groups) : groups[i].key = key
                      IN AggregateRows(Tail(rows), agg_key,
                                       [groups EXCEPT ![i] = UpdateGroup(groups[i], r)])
                 ELSE AggregateRows(Tail(rows), agg_key,
                                    Append(groups, NewGroup(key, r)))

\* The candle of one group
GroupCandle(g) ==
    [ date   |-> g.date,
      open   |-> g.open,
      high   |-> g.high,
      low    |-> g.low,
      close  |-> g.close,
      volume |-> g.volume ]

\* TakeLatest that keeps first-seen order (oldest groups first)
TakeLatest_Oldest(groups, limit) ==
    LET n == IF Len(groups) = 0 THEN 0 ELSE Max2(1, Min2(limit, Len(groups)))
    IN [i \in 1..n |-> GroupCandle(groups[i])]

\* "Take the latest N groups": reversed group_order, stop at limit candles
TakeLatest(groups, limit) ==
    LET rev == Reverse(groups)
        n == IF Len(rev) = 0 THEN 0 ELSE Max2(1, Min2(limit, Len(rev)))
    IN [i \in 1..n |-> GroupCandle(rev[i])]

\* The aggregated branch
AggKlines(daily_results, agg_key, limit) ==
    TakeLatest(AggregateRows(daily_results, agg_key, <<>>), limit)

\* get_stock_kline: None without the stock, else the response
get_stock_kline(table, stock_id, interval, limit) ==
    LET stock == _resolve_stock(stock_id) IN
    IF IsNone(stock) THEN None
    ELSE LET symbol == StrUpper(Val(stock).symbol)
             agg_key == _get_aggregation_key(interval)
             daily_results == SelectBySymbol(table, symbol)
             klines == IF daily_results = <<>> THEN <<>>
                       ELSE IF agg_key = "day" THEN DayKlines(daily_results, limit)
                       ELSE AggKlines(daily_results, agg_key, limit)
         IN Some([ stock_id |-> stock_id, symbol |-> symbol,
                   interval |-> interval, klines |-> klines ])

(***************************************************************************)
(* Actions on daily_klines                                                  *)
(***************************************************************************)
NoCall == [ called |-> FALSE ]

\* populate_klines, first step: DELETE FROM daily_klines
PopulateClear ==
    /\ ~kline_call.called
    /\ daily_klines # <<>>
    /\ daily_klines' = <<>>
    /\ UNCHANGED <<kline_call, upsert_vars, table_vars, pipeline_vars>>

\* populate_klines, loop body: one candle of the symbol's daily feed becomes
\* a row, unless its date is before 2023-01-01.  The feed holds one candle
\* per day.
PopulateKline ==
    \E kline \in FeedKlines :
        LET row == KlineRecord(FeedSymbol, kline) IN
        /\ ~kline_call.called
        /\ Len(daily_klines) < MaxRows
        /\ \A j \in 1..Len(daily_klines) : daily_klines[j].date # row.date
        /\ IF StrLess(row.date, "2023-01-01")
           THEN daily_klines' = daily_klines
           ELSE \E i \in InsertPositions(daily_klines, row) :
                    daily_klines' = InsertAt(daily_klines, i, row)
        /\ UNCHANGED <<kline_call, upsert_vars, table_vars, pipeline_vars>>

\* GET /stocks/{stock_id}/klines: the handler runs get_stock_kline
GetStockKline ==
    \E stock_id \in StockIds : \E interval \in Intervals : \E limit \in 1..MaxLimit :
        /\ ~kline_call.called
        /\ kline_call' =
              [ called   |-> TRUE,
                stock_id |-> stock_id,
                interval |-> interval,
                limit    |-> limit,
                daily_results |->
                    IF IsNone(_resolve_stock(stock_id)) THEN <<>>
                    ELSE SelectBySymbol(daily_klines,
                                        StrUpper(Val(_resolve_stock(stock_id)).symbol)),
                response |-> get_stock_kline(daily_klines, stock_id, interval, limit) ]
        /\ UNCHANGED <<daily_klines, upsert_vars, table_vars, pipeline_vars>>

\* The response is sent and the request ends
ReturnKlines ==
    /\ kline_call.called
    /\ kline_call' = NoCall
    /\ UNCHANGED <<daily_klines, upsert_vars, table_vars, pipeline_vars>>

KlineInit ==
    /\ daily_klines = <<>>
    /\ kline_call = NoCall
    /\ tables = EmptyTables
    /\ run = NoRun
    /\ runs = 0
    /\ fin_text = <<>>
    /\ fin_table = None
    /\ fin_get = NoGet
    /\ fin_periods = None
    /\ PipelineIdle

KlineNext ==
    \/ PopulateClear
    \/ PopulateKline
    \/ GetStockKline
    \/ ReturnKlines

(***************************************************************************)
(* Properties of get_stock_kline                                            *)
(***************************************************************************)
\* The call returned a response (the stock exists)
Answered == kline_call.called /\ NotNone(kline_call.response)

CallAggKey == _get_aggregation_key(kline_call.interval)

AnsweredAgg == Answered /\ CallAggKey \in {"week", "month", "year"}

AnsweredDay == Answered /\ CallAggKey = "day"

CallKlines == Val(kline_call.response).klines

\* A row with open, high, low and close all present
HasOhlc(r) == NotNone(r.open) /\ NotNone(r.high) /\ NotNone(r.low) /\ NotNone(r.close)

\* The rows read by the call that have all of open, high, low, close
OhlcRows == SelectSeq(kline_call.daily_results, HasOhlc)

\* The rows of OhlcRows in the bucket of the candle c, in ascending order
BucketRows(c) ==
    SelectSeq(OhlcRows,
              LAMBDA r : _get_group_key(r.date, CallAggKey) = _get_group_key(c.date, CallAggKey))

RECURSIVE SumVolume(_)
SumVolume(rows) ==
    IF rows = <<>> THEN 0
    ELSE (IF IsNone(Head(rows).volume) THEN 0 ELSE Val(Head(rows).volume))
         + SumVolume(Tail(rows))

\* The seven rows 2024-01-01 .. 2024-01-07 of the week scenario
ScenarioRows ==
    [ i \in 1..7 |->
        [ symbol |-> "MTNN", date |-> "2024-01-0" \o ToString(i),
          open |-> Some(9 + i), high |-> Some(10 + i), low |-> Some(8 + i),
          close |-> Some(9 + i), volume |-> Some(100), rsi |-> None ] ]

ScenarioKlines == AggKlines(ScenarioRows, "week", 1)

\* C1: for week, month and year every returned candle is built from the rows
\* of its bucket that have open, high, low and close: open of the first, the
\* largest high, the smallest low, close of the last, the sum of the volumes
\* (a null volume counts 0); the seven-day scenario gives 10/17/9/16/700.
C1_BucketAggregates ==
    /\ AnsweredAgg =>
          \A j \in 1..Len(CallKlines) :
              LET c == CallKlines[j]
                  rows == BucketRows(c)
              IN /\ Len(rows) >= 1
                 /\ c.open = Val(rows[1].open)
                 /\ c.close = Val(rows[Len(rows)].close)
                 /\ \A i \in 1..Len(rows) : Val(rows[i].high) <= c.high
                 /\ \E i \in 1..Len(rows) : Val(rows[i].high) = c.high
                 /\ \A i \in 1..Len(rows) : Val(rows[i].low) >= c.low
                 /\ \E i \in 1..Len(rows) : Val(rows[i].low) = c.low
                 /\ c.volume = SumVolume(rows)
    /\ Len(ScenarioKlines) = 1
    /\ ScenarioKlines[1].open = 10 /\ ScenarioKlines[1].high = 17
    /\ ScenarioKlines[1].low = 9 /\ ScenarioKlines[1].close = 16
    /\ ScenarioKlines[1].volume = 700

\* C1 witness: a week candle built from two rows whose first row does not
\* have the largest high and whose last close differs from the first
C1_Witness ==
    /\ AnsweredAgg /\ CallAggKey = "week"
    /\ \E j \in 1..Len(CallKlines) :
          LET rows == BucketRows(CallKlines[j])
          IN /\ Len(rows) >= 2
             /\ Val(rows[1].high) < CallKlines[j].high
             /\ Val(rows[1].close) # CallKlines[j].close
             /\ \E i \in 1..Len(rows) : IsNone(rows[i].volume)

\* The distinct bucket keys of the rows read, in first-seen order
RECURSIVE SeenKeys(_, _)
SeenKeys(rows, acc) ==
    IF rows = <<>> THEN acc
    ELSE LET key == _get_group_key(Head(rows).date, CallAggKey)
         IN IF \E i \in 1..Len(acc) : acc[i] = key
            THEN SeenKeys(Tail(rows), acc)
            ELSE SeenKeys(Tail(rows), Append(acc, key))

BucketKeys == SeenKeys(OhlcRows, <<>>)

\* C2: for week, month and year the response holds exactly
\* min(limit, number of buckets) candles, most recent first, and they are
\* the most recent buckets: every row outside them is older than all of them.
C2_LatestBucketsFirst ==
    AnsweredAgg =>
        /\ Len(CallKlines) = Min2(kline_call.limit, Len(BucketKeys))
        /\ \A j \in 1..Len(CallKlines) :
              _get_group_key(CallKlines[j].date, CallAggKey)
                  = BucketKeys[Len(BucketKeys) + 1 - j]
        /\ \A j \in 1..(Len(CallKlines) - 1) :
              StrLess(CallKlines[j + 1].date, CallKlines[j].date)
        /\ \A i \in 1..Len(OhlcRows) :
              \/ \E j \in 1..Len(CallKlines) :
                    _get_group_key(OhlcRows[i].date, CallAggKey)
                        = _get_group_key(CallKlines[j].date, CallAggKey)
              \/ \A j \in 1..Len(CallKlines) :
                    StrLess(OhlcRows[i].date, CallKlines[j].date)

\* C2 witness: three buckets, limit 2: two candles returned, one left out
C2_Witness ==
    /\ AnsweredAgg
    /\ Len(BucketKeys) = 3 /\ kline_call.limit = 2 /\ Len(CallKlines) = 2

RemoveAt(seq, i) == SubSeq(seq, 1, i - 1) \o SubSeq(seq, i + 1, Len(seq))

\* C3: a row lacking open, high, low or close contributes nothing to week,
\* month and year aggregation: the candles equal those computed without it.
C3_NullRowContributesNothing ==
    AnsweredAgg =>
        \A i \in 1..Len(kline_call.daily_results) :
            ~HasOhlc(kline_call.daily_results[i]) =>
                CallKlines = AggKlines(RemoveAt(kline_call.daily_results, i),
                                       CallAggKey, kline_call.limit)

\* C3 witness: rows lacking high or low sit between rows of a returned bucket
C3_Witness ==
    /\ AnsweredAgg
    /\ Len(CallKlines) >= 1
    /\ \E i \in 1..Len(kline_call.daily_results) :
          LET r == kline_call.daily_results[i]
          IN /\ NotNone(r.open) /\ NotNone(r.close)
             /\ IsNone(r.high) \/ IsNone(r.low)
             /\ \E j \in 1..Len(CallKlines) :
                   _get_group_key(r.date, CallAggKey)
                       = _get_group_key(CallKlines[j].date, CallAggKey)

\* The indices of the last `limit` rows read
TailIndices ==
    { i \in 1..Len(kline_call.daily_results) :
        i > Len(kline_call.daily_results) - kline_call.limit }

KeptIndices ==
    { i \in TailIndices : NotNone(kline_call.daily_results[i].open)
                          /\ NotNone(kline_call.daily_results[i].close) }

\* C4: for day the response holds the rows among the last `limit` rows whose
\* open and close are present, most recent first; no older row fills in for
\* a dropped one.
C4_DaySliceThenFilter ==
    AnsweredDay =>
        /\ Len(CallKlines) = Cardinality(KeptIndices)
        /\ Len(CallKlines) <= kline_call.limit
        /\ \A j \in 1..Len(CallKlines) :
              \E i \in KeptIndices :
                  CallKlines[j].date = kline_call.daily_results[i].date
        /\ \A j \in 1..(Len(CallKlines) - 1) :
              StrLess(CallKlines[j + 1].date, CallKlines[j].date)

\* C4 witness: a row of the slice is dropped while an older row outside the
\* slice has open and close
C4_Witness ==
    /\ AnsweredDay
    /\ Cardinality(KeptIndices) < Cardinality(TailIndices)
    /\ Len(CallKlines) >= 1
    /\ \E i \in 1..Len(kline_call.daily_results) :
          /\ i \notin TailIndices
          /\ NotNone(kline_call.daily_results[i].open)
          /\ NotNone(kline_call.daily_results[i].close)

\* The shape of a bucket key: YYYY-MM-DD, YYYY-Www, YYYY-MM or YYYY
IsBucketKey(key, agg_key) ==
    IF agg_key = "week"
    THEN Len(key) = 8 /\ AllDigits(SubSeq(key, 1, 4)) /\ SubSeq(key, 5, 6) = "-W"
         /\ AllDigits(SubSeq(key, 7, 8))
    ELSE IF agg_key = "month"
    THEN Len(key) = 7 /\ AllDigits(SubSeq(key, 1, 4)) /\ CharAt(key, 5) = "-"
         /\ AllDigits(SubSeq(key, 6, 7))
    ELSE IF agg_key = "year"
    THEN Len(key) = 4 /\ AllDigits(key)
    ELSE NotNone(StrptimeYmd(key))

\* C5 as stated: every candle is identified by its bucket key
C5_CandleDateIsBucketKey ==
    Answered =>
        \A j \in 1..Len(CallKlines) :
            /\ IsBucketKey(CallKlines[j].date, CallAggKey)
            /\ CallKlines[j].date = _get_group_key(CallKlines[j].date, CallAggKey)

\* C5 amended: every candle carries the YYYY-MM-DD date of the first row of
\* its bucket; the bucket key (YYYY-MM-DD, YYYY-Www, YYYY-MM, YYYY) only
\* groups the rows: the candles have pairwise different keys and every row
\* with all of open, high, low, close and a candle's key is in that candle.
C5_CandleDateIsFirstRowDate ==
    /\ Answered =>
          \A j \in 1..Len(CallKlines) :
              /\ NotNone(StrptimeYmd(CallKlines[j].date))
              /\ IsBucketKey(_get_group_key(CallKlines[j].date, CallAggKey), CallAggKey)
              /\ \A k \in 1..Len(CallKlines) :
                    _get_group_key(CallKlines[k].date, CallAggKey)
                        = _get_group_key(CallKlines[j].date, CallAggKey) => k = j
    /\ AnsweredAgg =>
          \A j \in 1..Len(CallKlines) :
              CallKlines[j].date = BucketRows(CallKlines[j])[1].date

\* C5 witness: a week candle for bucket 2025-W01 dated 2024-12-30
C5_Witness ==
    /\ AnsweredAgg
    /\ \E j \in 1..Len(CallKlines) :
          /\ CallKlines[j].date = "2024-12-30"
          /\ _get_group_key(CallKlines[j].date, CallAggKey) = "2025-W01"
          /\ Len(BucketRows(CallKlines[j])) = 2

(***************************************************************************)
(* Date parsing of the scrapers                                             *)
(***************************************************************************)
\* str.split(): the whitespace-separated tokens of a string
RECURSIVE SplitFrom(_, _, _)
SplitFrom(s, i, cur) ==
    IF i > Len(s) THEN (IF cur = "" THEN <<>> ELSE <<cur>>)
    ELSE IF CharAt(s, i) = " "
         THEN (IF cur = "" THEN <<>> ELSE <<cur>>) \o SplitFrom(s, i + 1, "")
         ELSE SplitFrom(s, i + 1, cur \o CharAt(s, i))

Split(s) == SplitFrom(s, 1, "")

\* str.strip()
RECURSIVE Strip(_)
Strip(s) ==
    IF Len(s) = 0 THEN s
    ELSE IF CharAt(s, 1) = " " THEN Strip(SubSeq(s, 2, Len(s)))
    ELSE IF CharAt(s, Len(s)) = " " THEN Strip(SubSeq(s, 1, Len(s) - 1))
    ELSE s

MonthAbbrs == << "jan", "feb", "mar", "apr", "may", "jun",
                 "jul", "aug", "sep", "oct", "nov", "dec" >>

MonthNames == << "january", "february", "march", "april", "may", "june", "july",
                 "august", "september", "october", "november", "december" >>

\* The month number of a name of the list (matched without case), or 0
MonthIn(names, tok) ==
    IF \E m \in 1..12 : names[m] = StrLower(tok)
    THEN CHOOSE m \in 1..12 : names[m] = StrLower(tok)
    ELSE 0

\* strptime's %d: one or two digits, 1..31
IsDayToken(tok) ==
    Len(tok) \in {1, 2} /\ AllDigits(tok) /\ StrToInt(tok) >= 1 /\ StrToInt(tok) <= 31

IsYearToken(tok) == Len(tok) = 4 /\ AllDigits(tok)

DateOrNone(y, m, d) == IF ValidYmd(y, m, d) THEN Some(<<y, m, d>>) ELSE None

\* strptime(val, "%b %d, %Y") and "%B %d, %Y", for the month names given
StrptimeMonDayYear(names, s) ==
    LET toks == Split(s) IN
    IF /\ Len(toks) = 3
       /\ MonthIn(names, toks[1]) # 0
       /\ Len(toks[2]) >= 2 /\ CharAt(toks[2], Len(toks[2])) = ","
       /\ IsDayToken(SubSeq(toks[2], 1, Len(toks[2]) - 1))
       /\ IsYearToken(toks[3])
    THEN DateOrNone(StrToInt(toks[3]), MonthIn(names, toks[1]),
                    StrToInt(SubSeq(toks[2], 1, Len(toks[2]) - 1)))
    ELSE None

\* strptime(val, "%b %Y") and "%B %Y": the first day of the month
StrptimeMonYear(names, s) ==
    LET toks == Split(s) IN
    IF Len(toks) = 2 /\ MonthIn(names, toks[1]) # 0 /\ IsYearToken(toks[2])
    THEN Some(<<StrToInt(toks[2]), MonthIn(names, toks[1]), 1>>)
    ELSE None

\* The first format that parses
FirstSome(results) ==
    IF \E i \in 1..Len(results) : NotNone(results[i])
    THEN results[CHOOSE i \in 1..Len(results) :
                    NotNone(results[i]) /\ \A j \in 1..(i - 1) : IsNone(results[j])]
    ELSE None

\* scrape.py _parse_date: None, or the date <<y, m, d>> of the first format
\* of %Y-%m-%d, %b %d, %Y, %B %d, %Y, %b %Y, %B %Y that parses
_parse_date(val) ==
    IF IsNone(val) \/ val = Some("") THEN None
    ELSE LET s == Strip(Val(val))
         IN FirstSome(<< StrptimeYmd(s),
                         StrptimeMonDayYear(MonthAbbrs, s),
                         StrptimeMonDayYear(MonthNames, s),
                         StrptimeMonYear(MonthAbbrs, s),
                         StrptimeMonYear(MonthNames, s) >>)

\* date.isoformat()
isoformat(dt) == IsoFormat(dt[1], dt[2], dt[3])

(***************************************************************************)
(* Statement tables and the period upserts (scrape.py, scraper.py)          *)
(***************************************************************************)

\* The numeric columns of each table that the model keeps
Fields(kind) ==
    IF kind = "income" THEN {"revenue", "net_income"}
    ELSE IF kind = "balance" THEN {"total_assets"}
    ELSE IF kind = "cashflow" THEN {"net_income"}
    ELSE {"pe_ratio"}

AllFields == {"revenue", "net_income", "total_assets", "pe_ratio"}

\* _f on a value that is already a number or None
_f(val) == val

\* A new row IncomeStatement(stock_id=..., period_ending=..., period_type=...):
\* every other column is NULL; the row is pending until the session flushes
NewRow(kind, stock_id, pe, pt) ==
    [ stock_id |-> stock_id, period_ending |-> pe, period_type |-> pt,
      pending |-> TRUE, f |-> [c \in Fields(kind) |-> None] ]

\* session.flush(): pending rows are inserted
Flush(table) == [i \in 1..Len(table) |-> [table[i] EXCEPT !.pending = FALSE]]

SameKey(row, stock_id, pe, pt) ==
    row.stock_id = stock_id /\ row.period_ending = pe /\ row.period_type = pt

\* query(...).filter_by(stock_id, period_ending, period_type).first():
\* the index of the row, or 0.  A session without autoflush does not see
\* its own pending rows.
FindRow_Never(table, stock_id, pe, pt, autoflush) == 0

FindRow(table, stock_id, pe, pt, autoflush) ==
    LET seen == { i \in 1..Len(table) :
                    SameKey(table[i], stock_id, pe, pt)
                    /\ (autoflush \/ ~table[i].pending) }
    IN IF seen = {} THEN 0 ELSE CHOOSE i \in seen : \A j \in seen : i <= j

\* The table when the query has run: autoflush flushes first
AfterQuery(table, autoflush) == IF autoflush THEN Flush(table) ELSE table

\* scrape.py, one period of upsert_*_periods: look the key up (the session
\* autoflushes the table queried), add the row when it is missing, then set
\* every column from the record
UpsertPeriod(kind, table, stock_id, period) ==
    LET pe == _parse_date(period.period_ending)
        pt == period.period_type
    IN IF IsNone(pe) \/ IsNone(pt) \/ pt = Some("") THEN table
       ELSE LET found == FindRow(table, stock_id, Val(pe), Val(pt), TRUE)
                t1 == AfterQuery(table, TRUE)
                t2 == IF found = 0
                      THEN Append(t1, NewRow(kind, stock_id, Val(pe), Val(pt)))
                      ELSE t1
                i == IF found = 0 THEN Len(t2) ELSE found
            IN [t2 EXCEPT ![i].f = [c \in Fields(kind) |-> _f(period.f[c])]]

\* The loop of upsert_*_periods over data[...]
RECURSIVE UpsertPeriods(_, _, _, _)
UpsertPeriods(kind, table, stock_id, periods) ==
    IF periods = <<>> THEN table
    ELSE UpsertPeriods(kind, UpsertPeriod(kind, table, stock_id, Head(periods)),
                       stock_id, Tail(periods))

upsert_income_periods(table, stock_id, periods) ==
    UpsertPeriods("income", table, stock_id, periods)

upsert_balance_periods(table, stock_id, periods) ==
    UpsertPeriods("balance", table, stock_id, periods)

upsert_cashflow_periods(table, stock_id, periods) ==
    UpsertPeriods("cashflow", table, stock_id, periods)

upsert_ratio_periods(table, stock_id, periods) ==
    UpsertPeriods("ratio", table, stock_id, periods)

\* scraper.py save_financials, one period and one model class: the columns
\* of the class present in the dict are set on the row found or added.
\* A field the dict lacks is None in p.f.
SaveFinancialsModel(kind, table, stock_id, p) ==
    LET relevant == { c \in Fields(kind) : NotNone(p.f[c]) }
        pe == p.period_end
        pt == p.period_type
    IN IF IsNone(pe) \/ relevant = {} THEN table
       ELSE LET found == FindRow(table, stock_id, Val(pe), pt, FALSE)
                t2 == IF found = 0
                      THEN Append(table, NewRow(kind, stock_id, Val(pe), pt))
                      ELSE table
                i == IF found = 0 THEN Len(t2) ELSE found
            IN [t2 EXCEPT ![i].f =
                  [c \in Fields(kind) |-> IF c \in relevant THEN p.f[c] ELSE t2[i].f[c]]]

\* save_financials: for p in periods, for ModelClass in models
RECURSIVE save_financials(_, _, _)
save_financials(tbls, stock_id, periods) ==
    IF periods = <<>> THEN tbls
    ELSE LET p == Head(periods)
             t1 == [tbls EXCEPT !["income"] =
                       SaveFinancialsModel("income", tbls["income"], stock_id, p)]
             t2 == [t1 EXCEPT !["balance"] =
                       SaveFinancialsModel("balance", t1["balance"], stock_id, p)]
             t3 == [t2 EXCEPT !["cashflow"] =
                       SaveFinancialsModel("cashflow", t2["cashflow"], stock_id, p)]
         IN save_financials(t3, stock_id, Tail(periods))

\* save_financial_ratios, one period: the row is found or added, then the
\* non-None fields that are columns of StockRatio are set
SaveRatioPeriod(table, stock_id, p) ==
    LET pe == p.period_end
        pt == p.period_type
    IN IF IsNone(pe) THEN table
       ELSE LET found == FindRow(table, stock_id, Val(pe), pt, FALSE)
                t2 == IF found = 0
                      THEN Append(table, NewRow("ratio", stock_id, Val(pe), pt))
                      ELSE table
                i == IF found = 0 THEN Len(t2) ELSE found
            IN [t2 EXCEPT ![i].f =
                  [c \in Fields("ratio") |->
                      IF NotNone(p.f[c]) THEN p.f[c] ELSE t2[i].f[c]]]

RECURSIVE save_financial_ratios(_, _, _)
save_financial_ratios(table, stock_id, periods) ==
    IF periods = <<>> THEN table
    ELSE save_financial_ratios(SaveRatioPeriod(table, stock_id, Head(periods)),
                               stock_id, Tail(periods))

\* The unique constraints uq_income_period, uq_balance_period,
\* uq_cashflow_period, uq_ratio_period
Unique(table) ==
    \A i, j \in 1..Len(table) :
        SameKey(table[i], table[j].stock_id, table[j].period_ending,
                table[j].period_type) => i = j

\* upsert_price: the DailyKline of (symbol, price_date) is found or added;
\* close, open, high, low and volume are set when present, the other
\* columns always
upsert_price(table, symbol, p) ==
    IF IsNone(p.price_date) \/ p.price_date = Some("") THEN table
    ELSE LET date == Val(p.price_date)
             seen == { i \in 1..Len(table) :
                         table[i].symbol = symbol /\ table[i].date = date }
             t2 == IF seen = {}
                   THEN Append(table,
                               [ symbol |-> symbol, date |-> date, open |-> None,
                                 high |-> None, low |-> None, close |-> None,
                                 volume |-> None, rsi |-> None ])
                   ELSE table
             i == IF seen = {} THEN Len(t2) ELSE CHOOSE k \in seen : \A j \in seen : k <= j
             keep(new, old) == IF NotNone(new) THEN _f(new) ELSE old
         IN [t2 EXCEPT ![i] =
               [ @ EXCEPT !.close  = keep(p.close_price, @),
                          !.open   = keep(p.open_price, @),
                          !.high   = keep(p.day_high, @),
                          !.low    = keep(p.day_low, @),
                          !.volume = keep(p.volume, @),
                          !.rsi    = _f(p.rsi) ]]

(***************************************************************************)
(* The records the scrapers hand to the upserts                             *)
(***************************************************************************)
\* strptime(s, "%Y"): the first day of the year
StrptimeY(s) == IF IsYearToken(s) THEN Some(<<StrToInt(s), 1, 1>>) ELSE None

\* scraper.py parse_date
parse_date(s) ==
    IF s = "" THEN None
    ELSE LET t == Strip(s) IN
         IF t \in {"", "n/a", "-"} THEN None
         ELSE FirstSome(<< StrptimeMonDayYear(MonthAbbrs, t),
                           StrptimeMonDayYear(MonthNames, t),
                           StrptimeYmd(t),
                           StrptimeMdY(t),
                           StrptimeMonYear(MonthAbbrs, t),
                           StrptimeY(t) >>)

\* scrape.py: one record of data["income_periods"], data["balance_periods"],
\* data["cashflow_periods"] or data["ratio_periods"].  period_ending is the
\* ISO date string and period_type the type _get_periods gave the column.
PeriodRecord(kind, period_ending, period_type, values) ==
    [ period_ending |-> period_ending, period_type |-> period_type,
      f |-> [c \in Fields(kind) |-> IF c \in DOMAIN values THEN values[c] ELSE None] ]

\* scraper.py: the dict of one column of a statement page or of the ratios
\* page: period_end is parse_date of the column header; a field is in the
\* dict only when parse_number gave a value (None here: not in the dict)
ColumnDict(dh, period_type, values) ==
    [ header |-> dh, period_end |-> parse_date(dh), period_type |-> period_type,
      f |-> [c \in AllFields |-> IF c \in DOMAIN values THEN values[c] ELSE None] ]

D1 == "2024-12-31"

D2 == "2023-12-31"

FY(kind, d, values) == PeriodRecord(kind, Some(d), Some("FY"), values)

IncomeInputs ==
    { << FY("income", D1, [revenue |-> Some(7), net_income |-> Some(3)]) >>,
      << FY("income", D1, [revenue |-> None, net_income |-> Some(3)]) >>,
      << FY("income", D1, [revenue |-> Some(7), net_income |-> Some(3)]),
         FY("income", D2, [revenue |-> Some(8), net_income |-> None]) >>,
      << FY("income", D1, [revenue |-> Some(7), net_income |-> Some(3)]),
         FY("income", D1, [revenue |-> Some(9), net_income |-> None]) >> }

BalanceInputs ==
    { << FY("balance", D1, [total_assets |-> Some(20)]) >> }

CashflowInputs ==
    { << FY("cashflow", D1, [net_income |-> Some(3)]) >> }

RatioInputs ==
    { << FY("ratio", D1, [pe_ratio |-> Some(12)]) >>,
      << FY("ratio", D1, [pe_ratio |-> None]),
         FY("ratio", D2, [pe_ratio |-> Some(11)]) >> }

\* data["stock_price"]: price_date is today's date
PriceInputs ==
    { [ price_date |-> Some("2025-02-03"), close_price |-> Some(4), open_price |-> Some(3),
        day_high |-> Some(5), day_low |-> Some(2), volume |-> Some(100), rsi |-> Some(55) ],
      [ price_date |-> Some("2025-02-03"), close_price |-> Some(6), open_price |-> None,
        day_high |-> None, day_low |-> None, volume |-> None, rsi |-> None ] }

\* scrape_all_financials: the merged columns, one dict per distinct date
FinancialInputs ==
    { << ColumnDict("Dec 31, 2024", "annual",
                    [revenue |-> Some(7), total_assets |-> Some(20)]) >>,
      << ColumnDict("Dec 31, 2024", "annual", [net_income |-> Some(3)]) >>,
      << ColumnDict("Dec 31, 2024", "annual", [revenue |-> Some(9)]),
         ColumnDict("Dec 31, 2023", "annual", [revenue |-> Some(8)]) >>,
      << ColumnDict("n/a", "annual", [revenue |-> Some(1)]) >> }

\* scrape_ratios: one dict per distinct column header
RatioColumnInputs ==
    { << ColumnDict("Dec 31, 2024", "annual", [pe_ratio |-> Some(12)]) >>,
      << ColumnDict("Dec 31, 2024", "annual", << >>) >>,
      << ColumnDict("Dec 31, 2024", "annual", [pe_ratio |-> Some(12)]),
         ColumnDict("2024-12-31", "annual", [pe_ratio |-> Some(13)]) >>,
      << ColumnDict("Current", "annual", [pe_ratio |-> Some(11)]) >> }

(***************************************************************************)
(* The scraper runs                                                         *)
(***************************************************************************)
\* scrape.py process_stock_data: the session opens and upsert_stock returns
\* the stock
BeginProcess ==
    \E i \in 1..Len(Stocks) :
        /\ run.pc = "idle"
        /\ runs < MaxRuns
        /\ run' = [ NoRun EXCEPT !.pc = "price", !.pipeline = "scrape",
                                 !.stock_id = Stocks[i].id,
                                 !.symbol = Stocks[i].symbol ]
        /\ runs' = runs + 1
        /\ UNCHANGED <<daily_klines, kline_call, tables, table_vars, pipeline_vars>>

UpsertPrice ==
    \E p \in PriceInputs :
        /\ run.pc = "price"
        /\ daily_klines' = upsert_price(daily_klines, run.symbol, p)
        /\ run' = [run EXCEPT !.pc = "income", !.arg = <<p>>]
        /\ UNCHANGED <<kline_call, tables, runs, table_vars, pipeline_vars>>

UpsertIncome ==
    \E periods \in IncomeInputs :
        /\ run.pc = "income"
        /\ tables' = [tables EXCEPT !["income"] =
                         upsert_income_periods(@, run.stock_id, periods)]
        /\ run' = [run EXCEPT !.pc = "balance", !.arg = periods]
        /\ UNCHANGED <<daily_klines, kline_call, runs, table_vars, pipeline_vars>>

UpsertBalance ==
    \E periods \in BalanceInputs :
        /\ run.pc = "balance"
        /\ tables' = [tables EXCEPT !["balance"] =
                         upsert_balance_periods(@, run.stock_id, periods)]
        /\ run' = [run EXCEPT !.pc = "cashflow", !.arg = periods]
        /\ UNCHANGED <<daily_klines, kline_call, runs, table_vars, pipeline_vars>>

UpsertCashflow ==
    \E periods \in CashflowInputs :
        /\ run.pc = "cashflow"
        /\ tables' = [tables EXCEPT !["cashflow"] =
                         upsert_cashflow_periods(@, run.stock_id, periods)]
        /\ run' = [run EXCEPT !.pc = "ratio", !.arg = periods]
        /\ UNCHANGED <<daily_klines, kline_call, runs, table_vars, pipeline_vars>>

UpsertRatio ==
    \E periods \in RatioInputs :
        /\ run.pc = "ratio"
        /\ tables' = [tables EXCEPT !["ratio"] =
                         upsert_ratio_periods(@, run.stock_id, periods)]
        /\ run' = [run EXCEPT !.pc = "commit", !.arg = periods]
        /\ UNCHANGED <<daily_klines, kline_call, runs, table_vars, pipeline_vars>>

\* The end of `with session.begin()`: commit
CommitProcess ==
    /\ run.pc = "commit"
    /\ tables' = [kind \in Kinds |-> Flush(tables[kind])]
    /\ run' = NoRun
    /\ UNCHANGED <<daily_klines, kline_call, runs, table_vars, pipeline_vars>>

\* scraper.py scrape_one: db = Session(), upsert_stock, db.flush()
BeginScrapeOne ==
    \E i \in 1..Len(Stocks) :
        /\ run.pc = "idle"
        /\ runs < MaxRuns
        /\ run' = [ NoRun EXCEPT !.pc = "financials", !.pipeline = "scraper",
                                 !.stock_id = Stocks[i].id,
                                 !.symbol = Stocks[i].symbol,
                                 !.saved = tables ]
        /\ runs' = runs + 1
        /\ UNCHANGED <<daily_klines, kline_call, tables, table_vars, pipeline_vars>>

SaveFinancials ==
    \E periods \in FinancialInputs :
        /\ run.pc = "financials"
        /\ tables' = save_financials(tables, run.stock_id, periods)
        /\ run' = [run EXCEPT !.pc = "ratios", !.arg = periods, !.fin = periods]
        /\ UNCHANGED <<daily_klines, kline_call, runs, table_vars, pipeline_vars>>

SaveFinancialRatios ==
    \E periods \in RatioColumnInputs :
        /\ run.pc = "ratios"
        /\ tables' = [tables EXCEPT !["ratio"] =
                         save_financial_ratios(@, run.stock_id, periods)]
        /\ run' = [run EXCEPT !.pc = "db_commit", !.arg = periods, !.rat = periods]
        /\ UNCHANGED <<daily_klines, kline_call, runs, table_vars, pipeline_vars>>

\* db.commit() flushes the pending rows
CommitScrapeOne ==
    /\ run.pc = "db_commit"
    /\ \A kind \in Kinds : Unique(tables[kind])
    /\ tables' = [kind \in Kinds |-> Flush(tables[kind])]
    /\ run' = [run EXCEPT !.pc = "idle", !.arg = <<>>, !.saved = <<>>, !.ok = TRUE]
    /\ UNCHANGED <<daily_klines, kline_call, runs, table_vars, pipeline_vars>>

\* db.commit() raises IntegrityError on a violated unique constraint:
\* except Exception: db.rollback()
RollbackScrapeOne ==
    /\ run.pc = "db_commit"
    /\ \E kind \in Kinds : ~Unique(tables[kind])
    /\ tables' = run.saved
    /\ run' = [run EXCEPT !.pc = "idle", !.arg = <<>>, !.saved = <<>>, !.ok = FALSE]
    /\ UNCHANGED <<daily_klines, kline_call, runs, table_vars, pipeline_vars>>

UpsertInit == KlineInit

UpsertNext ==
    \/ BeginProcess
    \/ UpsertPrice
    \/ UpsertIncome
    \/ UpsertBalance
    \/ UpsertCashflow
    \/ UpsertRatio
    \/ CommitProcess
    \/ BeginScrapeOne
    \/ SaveFinancials
    \/ SaveFinancialRatios
    \/ CommitScrapeOne
    \/ RollbackScrapeOne

SpecKline == KlineInit /\ [][KlineNext]_vars

SpecUpsert == UpsertInit /\ [][UpsertNext]_vars

(***************************************************************************)
(* Properties of the period upserts                                         *)
(***************************************************************************)
\* C6: after any sequence of period upserts each statement table holds at
\* most one row per (stock_id, period_ending, period_type): an upsert adds a
\* row only when none exists for the key.
C6_OneRowPerKey == \A kind \in Kinds : Unique(tables[kind])

\* The statement table a step of process_stock_data has just written
UpsertedKind ==
    IF run.pc = "balance" THEN "income"
    ELSE IF run.pc = "cashflow" THEN "balance"
    ELSE IF run.pc = "ratio" THEN "cashflow"
    ELSE "ratio"

AfterPeriodUpsert ==
    run.pipeline = "scrape" /\ run.pc \in {"balance", "cashflow", "ratio", "commit"}

\* The same records applied once more to the same stock
UpsertedAgain ==
    LET kind == UpsertedKind IN
    IF kind = "income" THEN upsert_income_periods(tables[kind], run.stock_id, run.arg)
    ELSE IF kind = "balance" THEN upsert_balance_periods(tables[kind], run.stock_id, run.arg)
    ELSE IF kind = "cashflow" THEN upsert_cashflow_periods(tables[kind], run.stock_id, run.arg)
    ELSE upsert_ratio_periods(tables[kind], run.stock_id, run.arg)

AfterScrapeOne == run.pipeline = "scraper" /\ run.pc = "idle"

\* scrape_one run once more with the same scraped columns: the tables in
\* the session before db.commit()
ScrapedAgain ==
    LET t1 == save_financials(tables, run.stock_id, run.fin)
    IN [t1 EXCEPT !["ratio"] = save_financial_ratios(@, run.stock_id, run.rat)]

\* The tables when that second run has ended: committed, or rolled back
ScrapedAgainEnded ==
    IF \A kind \in Kinds : Unique(ScrapedAgain[kind])
    THEN [kind \in Kinds |-> Flush(ScrapedAgain[kind])]
    ELSE tables

PartialRow(kind, r) ==
    /\ \E c \in Fields(kind) : NotNone(r.f[c])
    /\ \E c \in Fields(kind) : IsNone(r.f[c])

UpsertStep ==
    run.pc \in {"income", "balance", "cashflow", "ratio", "financials", "ratios"}

\* The record has no value for the field
FieldNull(rec, c) == c \notin DOMAIN rec.f \/ IsNone(rec.f[c])

PriceColumns ==
    { <<"close", "close_price">>, <<"open", "open_price">>, <<"high", "day_high">>,
      <<"low", "day_low">>, <<"volume", "volume">>, <<"rsi", "rsi">> }

\* C8: a re-scrape never erases data.  When the records an upsert applies
\* have a field null, every existing FinancialPeriod, ratio and daily-candle
\* row keeps the non-null value it had in that field.
C8_NullNeverErases ==
    [][ /\ UpsertStep =>
            \A kind \in Kinds : \A i \in 1..Len(tables[kind]) :
                \A c \in Fields(kind) :
                    ( /\ NotNone(tables[kind][i].f[c])
                      /\ \A k \in 1..Len(run'.arg) : FieldNull(run'.arg[k], c) )
                    => tables'[kind][i].f[c] = tables[kind][i].f[c]
        /\ run.pc = "price" =>
            \A i \in 1..Len(daily_klines) : \A col \in PriceColumns :
                ( NotNone(daily_klines[i][col[1]]) /\ IsNone(run'.arg[1][col[2]]) )
                => daily_klines'[i][col[1]] = daily_klines[i][col[1]]
      ]_vars

(***************************************************************************)
(* Numbers of the table text (scrape.py)                                    *)
(***************************************************************************)
\* A parsed float: the decimal m / 10^e, with no trailing zero in the
\* fraction
RECURSIVE Dec(_, _)
Dec(m, e) == IF e > 0 /\ m % 10 = 0 THEN Dec(m \div 10, e - 1) ELSE [m |-> m, e |-> e]

\* str.replace(old, ""), for a one-character old
RECURSIVE RemoveChar(_, _)
RemoveChar(s, c) ==
    IF Len(s) = 0 THEN ""
    ELSE IF CharAt(s, 1) = c THEN RemoveChar(SubSeq(s, 2, Len(s)), c)
    ELSE CharAt(s, 1) \o RemoveChar(SubSeq(s, 2, Len(s)), c)

\* str.rstrip("%")
RECURSIVE RStripPercent(_)
RStripPercent(s) ==
    IF Len(s) > 0 /\ CharAt(s, Len(s)) = "%"
    THEN RStripPercent(SubSeq(s, 1, Len(s) - 1))
    ELSE s

_clean_num(val) ==
    IF val = "" THEN None
    ELSE LET v == RemoveChar(RemoveChar(Strip(val), ","), " ")
         IN IF v \in {"n/a", "-", "N/A", "", "NotFound", "Not Found"} THEN None
            ELSE Some(v)

\* float(s) for the decimal literals of the tables: an optional sign, digits
\* and at most one point; a ValueError is None
ParseFloat(s) ==
    LET signed == Len(s) > 0 /\ CharAt(s, 1) \in {"+", "-"}
        body == IF signed THEN SubSeq(s, 2, Len(s)) ELSE s
        points == { i \in 1..Len(body) : CharAt(body, i) = "." }
        digits == RemoveChar(body, ".")
        e == IF points = {} THEN 0 ELSE Len(body) - (CHOOSE i \in points : TRUE)
        sign == IF signed /\ CharAt(s, 1) = "-" THEN -1 ELSE 1
    IN IF Cardinality(points) <= 1 /\ AllDigits(digits)
       THEN Some(Dec(sign * StrToInt(digits), e))
       ELSE None

\* The floats that are not numbers: nan, inf and -inf
Special(kind) == [special |-> kind]

IsSpecial(v) == "special" \in DOMAIN v

\* float(s): besides the decimal literals, "nan", "inf" and "infinity" with
\* an optional sign and in any case
Float(s) ==
    LET low == StrLower(s)
        signed == Len(low) > 0 /\ CharAt(low, 1) \in {"+", "-"}
        body == IF signed THEN SubSeq(low, 2, Len(low)) ELSE low
    IN IF body = "nan" THEN Some(Special("nan"))
       ELSE IF body \in {"inf", "infinity"}
            THEN Some(Special(IF signed /\ CharAt(low, 1) = "-" THEN "-inf" ELSE "inf"))
       ELSE ParseFloat(s)

\* _f on a string
_f_str(val) ==
    IF IsNone(val) THEN None
    ELSE LET cleaned == _clean_num(Val(val))
         IN IF IsNone(cleaned) THEN None
            ELSE Float(RStripPercent(Val(cleaned)))

Abs(n) == IF n < 0 THEN -n ELSE n

RECURSIVE Pow10(_)
Pow10(e) == IF e = 0 THEN 1 ELSE 10 * Pow10(e - 1)

\* _pct without the 1.5 threshold: only a '%' divides
_pct_PercentOnly(val) ==
    LET raw == _f_str(val) IN
    IF IsNone(raw) THEN None
    ELSE IF IsSpecial(Val(raw)) THEN raw
    ELSE IF StrContains(Strip(Val(val)), "%")
         THEN Some(Dec(Val(raw).m, Val(raw).e + 2))
         ELSE raw

_pct(val) ==
    LET raw == _f_str(val) IN
    IF IsNone(raw) THEN None
    ELSE IF IsSpecial(Val(raw)) THEN raw
    ELSE IF StrContains(Strip(Val(val)), "%")
         THEN Some(Dec(Val(raw).m, Val(raw).e + 2))
         ELSE IF Abs(Val(raw).m) * 10 <= 15 * Pow10(Val(raw).e)
              THEN raw
              ELSE Some(Dec(Val(raw).m, Val(raw).e + 2))

(***************************************************************************)
(* Python dicts: the keys in insertion order                                *)
(***************************************************************************)
DictHas(d, k) == \E i \in 1..Len(d) : d[i].k = k

DictIndex(d, k) == CHOOSE i \in 1..Len(d) : d[i].k = k

\* d[k] = v
DictSet(d, k, v) ==
    IF DictHas(d, k) THEN [d EXCEPT ![DictIndex(d, k)].v = v]
    ELSE Append(d, [k |-> k, v |-> v])

\* d[k], for a key of d
DictAt(d, k) == d[DictIndex(d, k)].v

DictKeys(d) == [i \in 1..Len(d) |-> d[i].k]

(***************************************************************************)
(* The financial-table tokenizer _parse_fin_table (scrape.py)               *)
(***************************************************************************)
\* \w of the regular expressions
IsWordChar(c) == IsAlpha(c) \/ IsDigit(c) \/ c = "_"

\* \bw\b matches at position i
WordAt(s, w, i) ==
    /\ SubSeq(s, i, i + Len(w) - 1) = w
    /\ (i = 1 \/ ~IsWordChar(CharAt(s, i - 1)))
    /\ (i + Len(w) > Len(s) \/ ~IsWordChar(CharAt(s, i + Len(w))))

HasWord(s, w) == \E i \in 1..(Len(s) - Len(w) + 1) : WordAt(s, w, i)

\* re.search(r"\bTTM\b|\bFY\b|\bCurrent\b|\bQ[1-4]\b", line)
IsHeaderLine(line) ==
    \E w \in {"TTM", "FY", "Current", "Q1", "Q2", "Q3", "Q4"} : HasWord(line, w)

RECURSIVE CountSpaces(_, _)
CountSpaces(s, i) ==
    IF i <= Len(s) /\ CharAt(s, i) = " " THEN 1 + CountSpaces(s, i + 1) ELSE 0

DigitAt(s, i) == i <= Len(s) /\ IsDigit(CharAt(s, i))

\* [A-Za-z]{3}\s+\d{1,2},\s*\d{4} matched at position i: the position of
\* the last character of the match, or 0
DateMatchEnd(s, i) ==
    LET sp == CountSpaces(s, i + 3)
        d == i + 3 + sp
        nd == IF DigitAt(s, d) /\ DigitAt(s, d + 1) /\ d + 2 <= Len(s)
                 /\ CharAt(s, d + 2) = ","
              THEN 2
              ELSE IF DigitAt(s, d) /\ d + 1 <= Len(s) /\ CharAt(s, d + 1) = ","
                   THEN 1 ELSE 0
        y == d + nd + 1 + CountSpaces(s, d + nd + 1)
    IN IF /\ i + 2 <= Len(s)
          /\ \A j \in i..(i + 2) : IsAlpha(CharAt(s, j))
          /\ sp >= 1
          /\ nd >= 1
          /\ \A j \in y..(y + 3) : DigitAt(s, j)
       THEN y + 3
       ELSE 0

\* re.findall of the date pattern
RECURSIVE FindAllDates(_, _)
FindAllDates(s, i) ==
    IF i > Len(s) THEN <<>>
    ELSE IF DateMatchEnd(s, i) # 0
         THEN <<SubSeq(s, i, DateMatchEnd(s, i))>> \o FindAllDates(s, DateMatchEnd(s, i) + 1)
         ELSE FindAllDates(s, i + 1)

\* re.search of the date pattern
HasDate(s) == \E i \in 1..Len(s) : DateMatchEnd(s, i) # 0

\* re.match(r"^[\d\-\+\.,% ]+$", label)
IsNumericLine(label) ==
    /\ Len(label) > 0
    /\ \A i \in 1..Len(label) :
          IsDigit(CharAt(label, i)) \/ CharAt(label, i) \in {"-", "+", ".", ",", "%", " "}

\* re.search(r"[\d\-\+]", value_line)
HasNumericChar(line) ==
    \E i \in 1..Len(line) : IsDigit(CharAt(line, i)) \/ CharAt(line, i) \in {"-", "+"}

\* [l.strip() for l in text.strip().splitlines() if l.strip()], on the lines
\* of the text
StrippedLines(text) ==
    SelectSeq([i \in 1..Len(text) |-> Strip(text[i])], LAMBDA l : l # "")

\* The index of the column header line, or 0
HeaderIndex(lines) ==
    IF \E i \in 1..Len(lines) : IsHeaderLine(lines[i])
    THEN CHOOSE i \in 1..Len(lines) :
            IsHeaderLine(lines[i]) /\ \A j \in 1..(i - 1) : ~IsHeaderLine(lines[j])
    ELSE 0

\* Step 2: "FY" and the token after it make one label
RECURSIVE PeriodLabels(_, _)
PeriodLabels(tokens, i) ==
    IF i > Len(tokens) THEN <<>>
    ELSE IF tokens[i] = "FY" /\ i + 1 <= Len(tokens)
         THEN <<"FY " \o tokens[i + 1]>> \o PeriodLabels(tokens, i + 2)
         ELSE <<tokens[i]>> \o PeriodLabels(tokens, i + 1)

\* Step 3: the dates of the line after "Period Ending", when that label is
\* among the five lines after the header and the line holds a date
PeriodDates(lines, h) ==
    LET labels == PeriodLabels(Split(lines[h]), 1)
        marks == { j \in (h + 1)..Min2(h + 5, Len(lines)) :
                      StrContains(StrLower(lines[j]), "period ending") }
    IN IF marks = {} THEN labels
       ELSE LET j == CHOOSE a \in marks : \A b \in marks : a <= b
            IN IF j + 1 <= Len(lines) /\ FindAllDates(lines[j + 1], 1) # <<>>
               THEN FindAllDates(lines[j + 1], 1)
               ELSE labels

\* Step 4: the first line after the header block
DataStart(lines, h) ==
    LET dated == { j \in (h + 1)..Min2(h + 6, Len(lines)) : HasDate(lines[j]) }
    IN IF dated = {} THEN h + 1
       ELSE (CHOOSE a \in dated : \A b \in dated : a <= b) + 1

\* row_data of a value line
RECURSIVE RowData(_, _, _, _)
RowData(period_dates, values, idx, row_data) ==
    IF idx > Len(period_dates) THEN row_data
    ELSE RowData(period_dates, values, idx + 1,
                 DictSet(row_data, period_dates[idx],
                         IF idx <= Len(values) THEN Some(values[idx]) ELSE None))

\* A value line of any length is accepted
IsValueLine_AnyLength(value_line, num_cols) ==
    /\ Split(value_line) # <<>>
    /\ HasNumericChar(value_line)

\* The line after a label is accepted as its value line
IsValueLine(value_line, num_cols) ==
    /\ Split(value_line) # <<>>
    /\ HasNumericChar(value_line)
    /\ Len(Split(value_line)) <= num_cols + 2

\* Step 5: the scan over label / value line pairs
RECURSIVE ScanRows(_, _, _, _)
ScanRows(lines, period_dates, k, result) ==
    IF k > Len(lines) THEN result
    ELSE IF IsNumericLine(lines[k]) THEN ScanRows(lines, period_dates, k + 1, result)
    ELSE IF k + 1 <= Len(lines) /\ IsValueLine(lines[k + 1], Len(period_dates))
         THEN ScanRows(lines, period_dates, k + 2,
                       DictSet(result, lines[k],
                               RowData(period_dates, Split(lines[k + 1]), 1, <<>>)))
         ELSE ScanRows(lines, period_dates, k + 1, result)

_parse_fin_table(text) ==
    LET lines == StrippedLines(text)
        h == HeaderIndex(lines)
    IN IF lines = <<>> \/ lines = <<"Not Found">> \/ h = 0 THEN <<>>
       ELSE ScanRows(lines, PeriodDates(lines, h), DataStart(lines, h), <<>>)

(***************************************************************************)
(* The label matcher _get (scrape.py)                                       *)
(***************************************************************************)
\* The label of the row _get resolves: the exact key, else the first label
\* that contains the key without regard to case
MatchLabel_Last(table, row_key) ==
    IF DictHas(table, row_key) THEN Some(row_key)
    ELSE LET hits == { i \in 1..Len(table) :
                         StrContains(StrLower(table[i].k), StrLower(row_key)) }
         IN IF hits = {} THEN None
            ELSE Some(table[CHOOSE i \in hits : \A j \in hits : j <= i].k)

MatchLabel(table, row_key) ==
    IF DictHas(table, row_key) THEN Some(row_key)
    ELSE LET hits == { i \in 1..Len(table) :
                         StrContains(StrLower(table[i].k), StrLower(row_key)) }
         IN IF hits = {} THEN None
            ELSE Some(table[CHOOSE i \in hits : \A j \in hits : i <= j].k)

\* The raw value of the period: the exact period key, else the first period
\* key that contains the period or is contained in it
MatchPeriod(row, period) ==
    IF DictHas(row, period) /\ NotNone(DictAt(row, period)) THEN DictAt(row, period)
    ELSE LET hits == { i \in 1..Len(row) :
                         StrContains(row[i].k, period) \/ StrContains(period, row[i].k) }
         IN IF hits = {} THEN None
            ELSE row[CHOOSE i \in hits : \A j \in hits : i <= j].v

_get(table, row_key, period, as_pct) ==
    LET label == MatchLabel(table, row_key) IN
    IF IsNone(label) THEN None
    ELSE LET val == MatchPeriod(DictAt(table, Val(label)), period)
         IN IF IsNone(val) THEN None
            ELSE IF as_pct THEN _pct(val) ELSE _f_str(val)

(***************************************************************************)
(* The period classifier and the income section parser (scrape.py)          *)
(***************************************************************************)
\* The (period key, period type) pairs of the columns: the keys of the
\* first row of the table
_get_periods(table) ==
    IF table = <<>> THEN <<>>
    ELSE LET sample == table[1].v
         IN [ i \in 1..Len(sample) |->
                LET p == sample[i].k
                IN << p, IF p = "TTM" THEN "TTM"
                         ELSE IF StartsWith(p, "Current") THEN "current"
                         ELSE "FY" >> ]

\* The record of one period: the fields are looked up with the period key
IncomeRow(table, pdate, ptype) ==
    [ period_ending      |-> isoformat(Val(_parse_date(Some(pdate)))),
      period_type        |-> ptype,
      revenue            |-> _get(table, "Revenue", pdate, FALSE),
      revenue_growth_yoy |-> _get(table, "Revenue Growth", pdate, TRUE),
      sga_expenses       |-> _get(table, "Selling, General", pdate, FALSE) ]

\* The loop ends at the first period whose key does not parse as a date
RECURSIVE IncomeRows_StopAtBadKey(_, _, _)
IncomeRows_StopAtBadKey(table, periods, i) ==
    IF i > Len(periods) THEN <<>>
    ELSE IF IsNone(_parse_date(Some(periods[i][1]))) THEN <<>>
         ELSE <<IncomeRow(table, periods[i][1], periods[i][2])>>
              \o IncomeRows_StopAtBadKey(table, periods, i + 1)

\* The periods whose key does not parse as a date are skipped
RECURSIVE IncomeRows(_, _, _)
IncomeRows(table, periods, i) ==
    IF i > Len(periods) THEN <<>>
    ELSE IF IsNone(_parse_date(Some(periods[i][1])))
         THEN IncomeRows(table, periods, i + 1)
         ELSE <<IncomeRow(table, periods[i][1], periods[i][2])>>
              \o IncomeRows(table, periods, i + 1)

_parse_income_periods(text) ==
    LET table == _parse_fin_table(text)
    IN IncomeRows(table, _get_periods(table), 1)

(***************************************************************************)
(* Table texts, and the actions that parse them and look values up          *)
(***************************************************************************)
\* The header block of a section: the column header line, with or without
\* a "Period Ending" line of dates
HeaderBlocks ==
    { << "TTM FY 2024 FY 2023" >>,
      << "Fiscal Year", "TTM FY 2024 FY 2023",
         "Period Ending", "Dec 31, 2024 Dec 31, 2024 Dec 31, 2023" >>,
      << "Fiscal Year", "FY 2024 FY 2023",
         "Period Ending", "Dec 31, 2024 Dec 31, 2023" >>,
      << "Fiscal Year", "TTM FY 2024 FY 2023",
         "Period Ending", "Sep 30, 2025 Dec 31, 2024 Dec 31, 2023" >>,
      << "Current FY 2024 2023-12-31",
         "Period Ending", "Nov 5, 2025 Dec 31, 2024 Dec 31, 2023" >>,
      << "Current FY 2024 2023-12-31" >>,
      << "Fiscal Year", "FY 2024 FY 2023",
         "Period Ending", "Feb 30, 2024 Dec 31, 2023" >>,
      << "Income Statement" >> }

\* The rows of a section: label lines and value lines
RowBlocks ==
    { << "Revenue", "6012 4977 5000" >>,
      << "Revenue", "6,012 4,977", "Revenue Growth (YoY)", "25.88% -0.46%" >>,
      << "Operating Revenue", "5,900 4,800 4,900",
         "Selling, General & Admin Expenses", "1,200 1,100 900" >>,
      << "Gross Profit", "n/a n/a n/a", "Revenue", "6012 4977 5000 1 2 3" >>,
      << "Revenue Per Share", "1.5 1.2 1.1", "Revenue", "6012 4977 5000" >>,
      << "Gross Profit", "n/a n/a n/a", "Non-Operating Income", "10 20 30" >> }

TextBlocks == { h \o r : h \in HeaderBlocks, r \in RowBlocks }

\* The row keys and the periods the section parsers ask for
RowKeys == { "Revenue", "revenue", "Operating Revenue", "Selling, General", "EPS" }

PeriodKeys == { "TTM", "FY 2024", "FY 2023", "Dec 31, 2024", "2023" }

\* table = _parse_fin_table(text)
ParseFinTable ==
    /\ IsNone(fin_table)
    /\ fin_table' = Some(_parse_fin_table(fin_text))
    /\ UNCHANGED <<fin_text, fin_get, fin_periods, kline_vars, upsert_vars, pipeline_vars>>

\* g(key): _get(table, key, period, as_pct)
Get ==
    \E row_key \in RowKeys : \E period \in PeriodKeys : \E as_pct \in BOOLEAN :
        /\ NotNone(fin_table)
        /\ ~fin_get.called
        /\ fin_get' = [ called  |-> TRUE,
                        row_key |-> row_key,
                        period  |-> period,
                        as_pct  |-> as_pct,
                        label   |-> MatchLabel(Val(fin_table), row_key),
                        result  |-> _get(Val(fin_table), row_key, period, as_pct) ]
        /\ UNCHANGED <<fin_text, fin_table, fin_periods, kline_vars, upsert_vars, pipeline_vars>>

\* rows = _parse_income_periods(raw_data); the lookup, when there is one, is
\* the last call of a behaviour
ParseIncomePeriods ==
    /\ IsNone(fin_periods)
    /\ ~fin_get.called
    /\ fin_periods' = Some(_parse_income_periods(fin_text))
    /\ UNCHANGED <<fin_text, fin_table, fin_get, kline_vars, upsert_vars, pipeline_vars>>

TableInit ==
    /\ daily_klines = <<>>
    /\ kline_call = NoCall
    /\ tables = EmptyTables
    /\ run = NoRun
    /\ runs = 0
    /\ fin_text \in TextBlocks
    /\ fin_table = None
    /\ fin_get = NoGet
    /\ fin_periods = None
    /\ PipelineIdle

TableNext ==
    \/ ParseFinTable
    \/ Get
    \/ ParseIncomePeriods

SpecTable == TableInit /\ [][TableNext]_vars

(***************************************************************************)
(* Properties of the tokenizer and the label matcher                        *)
(***************************************************************************)
Parsed == NotNone(fin_table)

ParsedLines == StrippedLines(fin_text)

\* The period keys of the parsed text, in header order
ParsedKeys == PeriodDates(ParsedLines, HeaderIndex(ParsedLines))

\* The tokens of the value line of a label: the line after the label line
ValueTokens(label) ==
    Split(ParsedLines[(CHOOSE k \in 1..Len(ParsedLines) : ParsedLines[k] = label) + 1])

ExampleText == << "TTM FY 2024 FY 2023", "Revenue", "6012 4977 5000" >>

GotRevenue(period) ==
    /\ fin_text = ExampleText /\ fin_get.called
    /\ fin_get.row_key = "Revenue" /\ fin_get.period = period /\ ~fin_get.as_pct

\* C9: _parse_fin_table aligns values to periods by position: for every
\* label row the i-th token of its value line is stored under the i-th
\* period key in header order, and the keys beyond the last token map to
\* null; in the example Revenue resolves to 6012, 4977, 5000 for TTM,
\* FY 2024, FY 2023.
C9_PositionalAlignment ==
    /\ Parsed =>
          \A r \in 1..Len(Val(fin_table)) :
              \A i \in 1..Len(ParsedKeys) :
                  DictAt(Val(fin_table)[r].v, ParsedKeys[i])
                      = IF i <= Len(ValueTokens(Val(fin_table)[r].k))
                        THEN Some(ValueTokens(Val(fin_table)[r].k)[i])
                        ELSE None
    /\ GotRevenue("TTM") => fin_get.result = Some(Dec(6012, 0))
    /\ GotRevenue("FY 2024") => fin_get.result = Some(Dec(4977, 0))
    /\ GotRevenue("FY 2023") => fin_get.result = Some(Dec(5000, 0))

\* key is contained in label, without regard to case
KeyInLabel(key, label) == StrContains(StrLower(label), StrLower(key))

Labels == DictKeys(Val(fin_table))

\* The first label in table order that satisfies the test, or None
FirstLabel(Test(_)) ==
    IF \E i \in 1..Len(Labels) : Test(Labels[i])
    THEN Some(Labels[CHOOSE i \in 1..Len(Labels) :
                        Test(Labels[i]) /\ \A j \in 1..(i - 1) : ~Test(Labels[j])])
    ELSE None

SgaLabel == "Selling, General & Admin Expenses"

\* C10 as stated: the row is resolved by exact label match first, else by
\* case-insensitive substring match in either direction, first match in
\* table order; null when no label matches; the row 'Selling, General &
\* Admin Expenses' resolves for sga_expenses.
C10_MatchEitherDirection ==
    fin_get.called =>
        LET key == fin_get.row_key
            Either(l) == KeyInLabel(key, l) \/ KeyInLabel(l, key)
        IN /\ fin_get.label =
                 IF \E i \in 1..Len(Labels) : Labels[i] = key THEN Some(key)
                 ELSE FirstLabel(Either)
           /\ IsNone(fin_get.label) => IsNone(fin_get.result)

\* C10, amended: exact label match first; else the first label in table
\* order that contains the requested key without regard to case (a label
\* that is only contained in the key does not match); null when no label
\* matches; 'Selling, General & Admin Expenses' resolves for the key
\* 'Selling, General' of sga_expenses.
C10_MatchKeyInLabel ==
    fin_get.called =>
        LET key == fin_get.row_key
            Holds(l) == KeyInLabel(key, l)
        IN /\ fin_get.label =
                 IF \E i \in 1..Len(Labels) : Labels[i] = key THEN Some(key)
                 ELSE FirstLabel(Holds)
           /\ IsNone(fin_get.label) => IsNone(fin_get.result)
           /\ (key = "Selling, General" /\ \E i \in 1..Len(Labels) : Labels[i] = SgaLabel)
                 => fin_get.label = Some(SgaLabel)

\* 'Selling, General' has no row of its own and resolves to the row of
\* 'Selling, General & Admin Expenses', which gives a value
C10_Witness ==
    /\ fin_get.called
    /\ fin_get.row_key = "Selling, General"
    /\ fin_get.label = Some(SgaLabel)
    /\ NotNone(fin_get.result)

(***************************************************************************)
(* Properties of the period classifier                                      *)
(***************************************************************************)
\* The header labels of the parsed text, in column order
HeaderLabels == PeriodLabels(Split(ParsedLines[HeaderIndex(ParsedLines)]), 1)

\* The period type the classification rule gives a header label
LabelType(label) ==
    IF StrContains(label, "TTM") THEN "TTM"
    ELSE IF StartsWith(label, "Current") THEN "current"
    ELSE "FY"

\* The records emitted for column i: those whose period_ending is the date
\* of the column's period key
ColumnRecords(i) ==
    LET pd == _parse_date(Some(ParsedKeys[i]))
        rows == Val(fin_periods)
    IN IF IsNone(pd) THEN {}
       ELSE { rows[n] : n \in { n \in 1..Len(rows) :
                                   rows[n].period_ending = isoformat(Val(pd)) } }

\* C11: every record emitted for a column has the period type of the
\* column's header label: 'TTM' when the label contains TTM, 'current' when
\* it starts with 'Current', 'FY' otherwise, whether the period keys are the
\* header labels or the dates of a Period Ending line.
C11_PeriodTypeByHeaderLabel ==
    (NotNone(fin_periods) /\ HeaderIndex(ParsedLines) # 0) =>
        \A i \in 1..Min2(Len(ParsedKeys), Len(HeaderLabels)) :
            \A r \in ColumnRecords(i) :
                r.period_type = LabelType(HeaderLabels[i])

(***************************************************************************)
(* The statement pages and their merge (scraper.py)                         *)
(***************************************************************************)
\* The power of ten of the suffixes T, B, M, K of parse_number
Mult(c) == IF c = "T" THEN 12 ELSE IF c = "B" THEN 9 ELSE IF c = "M" THEN 6 ELSE 3

\* d * 10^k.  A product beyond the checker's integers keeps its exponent.
Times10(d, k) ==
    IF IsSpecial(d) THEN d
    ELSE IF d.m = 0 THEN d
    ELSE IF d.e >= k THEN Dec(d.m, d.e - k)
    ELSE IF k - d.e <= 6 /\ Abs(d.m) < 1000 THEN [m |-> d.m * Pow10(k - d.e), e |-> 0]
    ELSE [m |-> d.m, e |-> d.e - k]

\* scraper.py parse_number, on the text of a cell
parse_number(s) ==
    IF s = "" THEN None
    ELSE LET t == RemoveChar(RemoveChar(RemoveChar(Strip(s), ","), "%"), "$")
         IN IF t \in {"", "n/a", "-", "N/A", "None"} THEN None
            ELSE LET suffix == UpperChar(CharAt(t, Len(t)))
                     body == Float(SubSeq(t, 1, Len(t) - 1))
                 IN IF suffix \in {"T", "B", "M", "K"} /\ NotNone(body)
                    THEN Some(Times10(Val(body), Mult(suffix)))
                    ELSE Float(t)

\* FINANCIAL_MAP, in the order of the dict: the entries of the rows that the
\* model's pages hold
FINANCIAL_MAP ==
    << <<"revenue", "revenue">>,
       <<"revenue growth", "revenue_growth_yoy">>,
       <<"cost of revenue", "cost_of_revenue">>,
       <<"net income", "net_income">>,
       <<"net income growth", "net_income_growth_yoy">>,
       <<"ebitda", "ebitda">>,
       <<"ebitda margin", "ebitda_margin">>,
       <<"total assets", "total_assets">> >>

PageFields == { FINANCIAL_MAP[i][2] : i \in 1..Len(FINANCIAL_MAP) }

\* for map_label, map_field in FINANCIAL_MAP.items():
\*     if map_label in label: field = map_field; break
FinancialField(label) ==
    LET low == StrLower(label)
        hits == { i \in 1..Len(FINANCIAL_MAP) : StrContains(low, FINANCIAL_MAP[i][1]) }
    IN IF hits = {} THEN None
       ELSE Some(FINANCIAL_MAP[CHOOSE i \in hits : \A j \in hits : i <= j][2])

\* key = str(dt) if dt else dh
PeriodKey(dh) ==
    IF NotNone(parse_date(dh)) THEN isoformat(Val(parse_date(dh))) ELSE dh

\* row.get(dh) of a row dict of parse_main_table: the cell of the last
\* column with that header
CellOf(date_headers, row, dh) ==
    LET idx == { i \in 1..Min2(Len(date_headers), Len(row.cells)) :
                    date_headers[i] = dh }
    IN IF idx = {} THEN None
       ELSE Some(row.cells[CHOOSE i \in idx : \A j \in idx : j <= i])

\* The first loop of scrape_financial_page: one dict per distinct key
RECURSIVE NewPeriods(_, _, _, _)
NewPeriods(date_headers, period_type, i, periods) ==
    IF i > Len(date_headers) THEN periods
    ELSE LET dh == date_headers[i]
             key == PeriodKey(dh)
             v == [ period_end |-> parse_date(dh), period_type |-> period_type,
                    f |-> [c \in PageFields |-> None] ]
         IN NewPeriods(date_headers, period_type, i + 1,
                       IF DictHas(periods, key) THEN periods
                       ELSE DictSet(periods, key, v))

\* for dh in date_headers: periods[key][field] = parse_number(row[dh]),
\* when the number is not None
RECURSIVE SetRowCells(_, _, _, _, _)
SetRowCells(date_headers, row, field, i, periods) ==
    IF i > Len(date_headers) THEN periods
    ELSE LET dh == date_headers[i]
             key == PeriodKey(dh)
             cell == CellOf(date_headers, row, dh)
             val == IF IsNone(cell) THEN None ELSE parse_number(Val(cell))
         IN SetRowCells(date_headers, row, field, i + 1,
                IF DictHas(periods, key) /\ NotNone(val)
                THEN DictSet(periods, key,
                             [DictAt(periods, key) EXCEPT !.f[field] = val])
                ELSE periods)

\* for row in rows
RECURSIVE SetRows(_, _, _, _)
SetRows(date_headers, rows, j, periods) ==
    IF j > Len(rows) THEN periods
    ELSE LET field == FinancialField(rows[j].label)
         IN SetRows(date_headers, rows, j + 1,
                IF IsNone(field) THEN periods
                ELSE SetRowCells(date_headers, rows[j], Val(field), 1, periods))

\* scrape_financial_page: page is None when the fetch failed, else the
\* (date_headers, rows) of parse_main_table
scrape_financial_page(page, period_type) ==
    IF IsNone(page) THEN <<>>
    ELSE SetRows(Val(page).date_headers, Val(page).rows, 1,
                 NewPeriods(Val(page).date_headers, period_type, 1, <<>>))

\* The body of the loop of scrape_all_financials:
\* all_periods[k] = v, or all_periods[k].update(the items of v not None)
RECURSIVE MergePage(_, _, _)
MergePage(all_periods, page_periods, n) ==
    IF n > Len(page_periods) THEN all_periods
    ELSE LET k == page_periods[n].k
             v == page_periods[n].v
             old == DictAt(all_periods, k)
         IN MergePage(
                IF ~DictHas(all_periods, k) THEN DictSet(all_periods, k, v)
                ELSE DictSet(all_periods, k,
                        [ period_end |-> IF NotNone(v.period_end) THEN v.period_end
                                         ELSE old.period_end,
                          period_type |-> v.period_type,
                          f |-> [c \in PageFields |->
                                   IF NotNone(v.f[c]) THEN v.f[c] ELSE old.f[c]] ]),
                page_periods, n + 1)

\* slugs: the three annual pages, then the three quarterly pages
Slugs(include_quarterly) ==
    << [page |-> "income", ptype |-> "annual"],
       [page |-> "balance", ptype |-> "annual"],
       [page |-> "cashflow", ptype |-> "annual"] >>
    \o IF include_quarterly
       THEN << [page |-> "income", ptype |-> "quarterly"],
               [page |-> "balance", ptype |-> "quarterly"],
               [page |-> "cashflow", ptype |-> "quarterly"] >>
       ELSE <<>>

\* The main table of a page
MainTable(date_headers, rows) == Some([date_headers |-> date_headers, rows |-> rows])

TableRow(label, cells) == [label |-> label, cells |-> cells]

AnnualHeaders == <<"Dec 31, 2024", "Dec 31, 2023">>

\* The pages the site serves for a slug; None is a failed fetch
PageInputs(slug) ==
    IF slug.ptype = "annual" THEN
        IF slug.page = "income" THEN
            { MainTable(AnnualHeaders,
                        << TableRow("Revenue", <<"7,000", "6,500">>),
                           TableRow("Net Income", <<"300", "-">>) >>),
              MainTable(<<"Dec 31, 2024">>, << TableRow("Revenue", <<"7.1K">>) >>),
              MainTable(<<"Dec 31, 2024">>,
                        << TableRow("Revenue", <<"7,000">>),
                           TableRow("Revenue Growth (YoY)", <<"7.69%">>) >>),
              None }
        ELSE IF slug.page = "balance" THEN
            { MainTable(AnnualHeaders,
                        << TableRow("Total Assets", <<"20,000", "18,000">>) >>),
              MainTable(<<"2024-12-31">>, << TableRow("Total Assets", <<"0">>) >>) }
        ELSE
            { MainTable(AnnualHeaders,
                        << TableRow("Net Income", <<"300", "250">>) >>) }
    ELSE
        IF slug.page = "income" THEN
            { MainTable(<<"Dec 31, 2024", "Sep 30, 2024">>,
                        << TableRow("Revenue", <<"2,000", "1,800">>) >>),
              MainTable(<<"Sep 30, 2024", "Jun 30, 2024">>,
                        << TableRow("Revenue", <<"1,800", "1,700">>) >>) }
        ELSE IF slug.page = "balance" THEN
            { MainTable(<<"Dec 31, 2024", "Sep 30, 2024">>,
                        << TableRow("Total Assets", <<"20,000", "19,500">>) >>),
              None }
        ELSE
            { MainTable(<<"Sep 30, 2024">>, << TableRow("Net Income", <<"90">>) >>) }

\* scrape_all_financials(base_url, include_quarterly) is called
BeginScrapeAllFinancials ==
    \E include_quarterly \in BOOLEAN :
        /\ merge_run.pc = "idle"
        /\ merge_run' = [ pc |-> "pages", slugs |-> Slugs(include_quarterly),
                          i |-> 1, all_periods |-> <<>>, pages |-> <<>>,
                          result |-> <<>> ]
        /\ UNCHANGED OutsideMerge

\* One turn of the loop: the page of the slug is scraped and merged
ScrapeFinancialPage ==
    /\ merge_run.pc = "pages"
    /\ merge_run.i <= Len(merge_run.slugs)
    /\ LET slug == merge_run.slugs[merge_run.i] IN
       \E page \in PageInputs(slug) :
           LET page_periods == scrape_financial_page(page, slug.ptype) IN
           merge_run' = [ merge_run EXCEPT
                            !.i = @ + 1,
                            !.all_periods = MergePage(@, page_periods, 1),
                            !.pages = Append(@, [ ptype |-> slug.ptype,
                                                  periods |-> page_periods ]) ]
    /\ UNCHANGED OutsideMerge

\* return list(all_periods.values())
ReturnAllFinancials ==
    /\ merge_run.pc = "pages"
    /\ merge_run.i > Len(merge_run.slugs)
    /\ merge_run' = [ merge_run EXCEPT
                        !.pc = "done",
                        !.result = [n \in 1..Len(merge_run.all_periods) |->
                                       merge_run.all_periods[n].v] ]
    /\ UNCHANGED OutsideMerge

MergeInit == KlineInit

MergeNext ==
    \/ BeginScrapeAllFinancials
    \/ ScrapeFinancialPage
    \/ ReturnAllFinancials

SpecMerge == MergeInit /\ [][MergeNext]_vars

(***************************************************************************)
(* Properties of the merge of the statement pages                           *)
(***************************************************************************)
\* The pages fetched that hold a column of the pair (period_end, ptype)
PairPages(pe, pt) ==
    { n \in 1..Len(merge_run.pages) :
        /\ merge_run.pages[n].ptype = pt
        /\ \E j \in 1..Len(merge_run.pages[n].periods) :
               merge_run.pages[n].periods[j].v.period_end = pe }

\* The value page n holds for field c of the period
PageValue(n, pe, c) ==
    LET periods == merge_run.pages[n].periods
    IN periods[CHOOSE j \in 1..Len(periods) : periods[j].v.period_end = pe].v.f[c]

\* The value of field c in the record of the pair: that of the last page
\* of the pair that holds the field
PairValue(pe, pt, c) ==
    LET ns == { n \in PairPages(pe, pt) : NotNone(PageValue(n, pe, c)) }
    IN IF ns = {} THEN None
       ELSE PageValue(CHOOSE n \in ns : \A k \in ns : k <= n, pe, c)

\* The pairs (period_end, period_type) of the columns of the pages fetched
FetchedPairs ==
    UNION { { << merge_run.pages[n].periods[j].v.period_end,
                 merge_run.pages[n].ptype >> :
                j \in { j \in 1..Len(merge_run.pages[n].periods) :
                          NotNone(merge_run.pages[n].periods[j].v.period_end) } } :
            n \in 1..Len(merge_run.pages) }

\* The records of the result that have the pair
PairRecords(pe, pt) ==
    { i \in 1..Len(merge_run.result) :
        /\ merge_run.result[i].period_end = pe
        /\ merge_run.result[i].period_type = pt }

\* C12: scrape_all_financials merges the records of the pages by identity
\* (period_ending, period_type): the columns of different pages with the
\* same pair become one record holding the fields of each page, and columns
\* with the same period_ending but a different period_type stay separate
\* records, each with its own period_type and its own field values.
C12_MergedByPair ==
    merge_run.pc = "done" =>
        \A pair \in FetchedPairs :
            /\ Cardinality(PairRecords(pair[1], pair[2])) = 1
            /\ \A i \in PairRecords(pair[1], pair[2]) : \A c \in PageFields :
                   merge_run.result[i].f[c] = PairValue(pair[1], pair[2], c)

(***************************************************************************)
(* The value normalizers (scrape.py, scraper.py)                            *)
(***************************************************************************)
\* The outcome of a call: the value returned, or the exception raised
Return(v) == [raised |-> "", value |-> v]

Raise(err) == [raised |-> err, value |-> None]

\* int(v) of a float: the digits before the point
Trunc(d) ==
    IF d.e <= 0 THEN d.m * Pow10(-d.e)
    ELSE IF d.m >= 0 THEN d.m \div Pow10(d.e)
    ELSE -((-d.m) \div Pow10(d.e))

\* int(v): ValueError for nan, OverflowError for an infinity
IntOf(v) ==
    IF v = Special("nan") THEN Raise("ValueError")
    ELSE IF IsSpecial(v) THEN Raise("OverflowError")
    ELSE Return(Some(Trunc(v)))

_i(val) ==
    LET v == _f_str(val)
    IN IF IsNone(v) THEN Return(None) ELSE IntOf(Val(v))

\* Decimal(str(v)): the same number
_dec(val) == Return(_f_str(val))

\* val.split()[0]: IndexError when val has no token
_strip_change(val) ==
    IF IsNone(val) \/ val = Some("") THEN Return(val)
    ELSE IF Split(Val(val)) = <<>> THEN Raise("IndexError")
    ELSE Return(Some(Split(Val(val))[1]))

\* multipliers = {"T": 1_000_000, "B": 1_000, "M": 1}
ScaleMult(c) == IF c = "T" THEN 6 ELSE IF c = "B" THEN 3 ELSE 0

_parse_scale(val) ==
    IF IsNone(val) \/ val = Some("") THEN Return(None)
    ELSE LET first == _strip_change(val) IN
         IF first.raised # "" THEN first
         ELSE LET v == Strip(RemoveChar(Val(first.value), ","))
                  suffix == UpperChar(CharAt(v, Len(v)))
                  body == Float(SubSeq(v, 1, Len(v) - 1))
              IN IF v \in {"n/a", "-", "N/A", ""} THEN Return(None)
                 ELSE IF suffix \in {"T", "B", "M"}
                      THEN IF IsNone(body) THEN Return(None)
                           ELSE Return(Some(Times10(Val(body), ScaleMult(suffix))))
                 ELSE Return(Float(v))

\* int(v * 1_000_000)
_parse_shares_raw(val) ==
    LET v == _f_str(val)
    IN IF IsNone(v) THEN Return(None) ELSE IntOf(Times10(Val(v), 6))

\* scraper.py: `if not s: return None` before the string is read
OfText(F(_), s) == IF IsNone(s) THEN None ELSE F(Val(s))

\* The tokens the scrapers hand to the normalizers: null, empty, blank,
\* words, null markers, numbers, percentages, scaled values and dates
NormTokens ==
    { None, Some(""), Some(" "), Some("abc"), Some("n/a"), Some("-"),
      Some("25.88%"), Some("0.12"), Some("45"), Some("1,234"),
      Some("22.21T +127.5%"), Some("1.2B"), Some("500M"), Some("nan"),
      Some("inf"), Some("Dec 31, 2024"), Some("2024-12-31"), Some("0"),
      Some("0.0"), Some("-1.5"), Some("1.5"), Some("1.6"), Some("150"),
      Some("-45"), Some("%") }

\* One call of a normalizer on a token
NormCall(fn, tok, outcome) == [fn |-> fn, token |-> tok, outcome |-> outcome]

Call_f ==
    \E tok \in NormTokens :
        /\ norm_call' = NormCall("_f", tok, Return(_f_str(tok)))
        /\ UNCHANGED OutsideNorm

Call_pct ==
    \E tok \in NormTokens :
        /\ norm_call' = NormCall("_pct", tok, Return(_pct(tok)))
        /\ UNCHANGED OutsideNorm

Call_i ==
    \E tok \in NormTokens :
        /\ norm_call' = NormCall("_i", tok, _i(tok))
        /\ UNCHANGED OutsideNorm

Call_dec ==
    \E tok \in NormTokens :
        /\ norm_call' = NormCall("_dec", tok, _dec(tok))
        /\ UNCHANGED OutsideNorm

Call_parse_date ==
    \E tok \in NormTokens :
        /\ norm_call' = NormCall("_parse_date", tok, Return(_parse_date(tok)))
        /\ UNCHANGED OutsideNorm

Call_strip_change ==
    \E tok \in NormTokens :
        /\ norm_call' = NormCall("_strip_change", tok, _strip_change(tok))
        /\ UNCHANGED OutsideNorm

Call_parse_scale ==
    \E tok \in NormTokens :
        /\ norm_call' = NormCall("_parse_scale", tok, _parse_scale(tok))
        /\ UNCHANGED OutsideNorm

Call_parse_shares_raw ==
    \E tok \in NormTokens :
        /\ norm_call' = NormCall("_parse_shares_raw", tok, _parse_shares_raw(tok))
        /\ UNCHANGED OutsideNorm

Call_parse_number ==
    \E tok \in NormTokens :
        /\ norm_call' = NormCall("parse_number", tok, Return(OfText(parse_number, tok)))
        /\ UNCHANGED OutsideNorm

Call_scraper_parse_date ==
    \E tok \in NormTokens :
        /\ norm_call' = NormCall("parse_date", tok, Return(OfText(parse_date, tok)))
        /\ UNCHANGED OutsideNorm

\* `x or default` tests the truth of x: None and zero are false
Falsy(x) == IsNone(x) \/ (~IsSpecial(Val(x)) /\ Val(x).m = 0)

\* scrape_history: the volume of a history row is its fifth value cell
HistoryVolume(cols) == IF Len(cols) > 4 THEN parse_number(cols[5]) ELSE None

\* save_prices: "volume": int(r.get("volume") or 0)
PriceVolume(volume) ==
    IF Falsy(volume) THEN Return(Some(0)) ELSE IntOf(Val(volume))

\* _parse_income_periods: _parse_shares_raw(str(g(key) or "")), where g gave
\* a float or None; str of a float reads back as the same float
SharesOf(g) ==
    IF Falsy(g) THEN _parse_shares_raw(Some(""))
    ELSE IntOf(Times10(Val(g), 6))

\* _parse_ratio_periods: gs(key) = _parse_scale(str(_get(table, key, p) or ""));
\* the text of a float ends with none of the suffixes T, B, M
ScaleOf(g) ==
    IF Falsy(g) THEN _parse_scale(Some(""))
    ELSE Return(g)

\* The value cells of a history row: open, high, low, close and the volume
\* cell when the row has one
HistoryCols(tok) ==
    <<"10.5", "12", "9.8", "11">> \o (IF IsNone(tok) THEN <<>> ELSE <<Val(tok)>>)

\* save_prices on a row of scrape_history
StoreVolume ==
    \E tok \in NormTokens :
        /\ norm_call' = NormCall("volume", tok,
                                 PriceVolume(HistoryVolume(HistoryCols(tok))))
        /\ UNCHANGED OutsideNorm

\* shares_basic of _parse_income_periods, for the token of the table
StoreShares ==
    \E tok \in NormTokens :
        /\ norm_call' = NormCall("shares_basic", tok, SharesOf(_f_str(tok)))
        /\ UNCHANGED OutsideNorm

\* market_cap of _parse_ratio_periods, for the token of the table
StoreMarketCap ==
    \E tok \in NormTokens :
        /\ norm_call' = NormCall("market_cap", tok, ScaleOf(_f_str(tok)))
        /\ UNCHANGED OutsideNorm

\* revenue of _parse_income_periods: g("Revenue") = _f(token)
StoreRevenue ==
    \E tok \in NormTokens :
        /\ norm_call' = NormCall("revenue", tok, Return(_f_str(tok)))
        /\ UNCHANGED OutsideNorm

\* crud.py _optional_float: float(val) if val else None
_optional_float(val) == IF IsNone(val) \/ Val(val) = 0 THEN None ELSE val

\* The values of a stored Numeric column: NULL, zero, or another amount
StoredValues == { None, Some(0), Some(7) }

\* The income statements in the table
StoredIncome ==
    [ revenue : StoredValues, net_income : StoredValues, eps_basic : StoredValues ]

\* The latest daily kline: its close and its market cap
StoredKline == [ close : StoredValues, market_cap : StoredValues ]

\* The rows a query .first() can return: None when the table has no row
FirstOf(rows) == { None } \cup { Some(r) : r \in rows }

\* The statement of every column at the same value
Uniform(v) == [ revenue |-> v, net_income |-> v, eps_basic |-> v ]

\* crud.py format_income_statement, for an income statement that exists
format_income_statement(income_stmt) ==
    [ revenue    |-> _optional_float(income_stmt.revenue),
      net_income |-> _optional_float(income_stmt.net_income),
      eps_basic  |-> _optional_float(income_stmt.eps_basic) ]

\* crud.py get_stock_stats: the fields read from the latest kline and the
\* latest income statement
get_stock_stats(latest, income) ==
    [ market_cap  |-> IF NotNone(latest) THEN _optional_float(Val(latest).market_cap)
                      ELSE None,
      revenue_ttm |-> IF NotNone(income) THEN _optional_float(Val(income).revenue)
                      ELSE None,
      net_income  |-> IF NotNone(income) THEN _optional_float(Val(income).net_income)
                      ELSE None,
      eps         |-> IF NotNone(income) THEN _optional_float(Val(income).eps_basic)
                      ELSE None ]

\* crud.py _build_comparison_data: the same sources
_build_comparison_data(latest, income) ==
    [ stock_price |-> IF NotNone(latest) THEN _optional_float(Val(latest).close)
                      ELSE None,
      market_cap  |-> IF NotNone(latest) THEN _optional_float(Val(latest).market_cap)
                      ELSE None,
      revenue     |-> IF NotNone(income) THEN _optional_float(Val(income).revenue)
                      ELSE None,
      net_income  |-> IF NotNone(income) THEN _optional_float(Val(income).net_income)
                      ELSE None,
      eps         |-> IF NotNone(income) THEN _optional_float(Val(income).eps_basic)
                      ELSE None ]

FormatIncomeStatement ==
    \E income_stmt \in StoredIncome :
        /\ norm_call' = NormCall("format_income_statement",
                                 [income |-> Some(income_stmt), latest |-> None],
                                 Return(format_income_statement(income_stmt)))
        /\ UNCHANGED OutsideNorm

GetStockStats ==
    \E latest \in FirstOf(StoredKline) :
    \E income \in FirstOf({ Uniform(v) : v \in StoredValues }) :
        /\ norm_call' = NormCall("get_stock_stats",
                                 [income |-> income, latest |-> latest],
                                 Return(get_stock_stats(latest, income)))
        /\ UNCHANGED OutsideNorm

BuildComparisonData ==
    \E latest \in FirstOf(StoredKline) :
    \E income \in FirstOf({ Uniform(v) : v \in StoredValues }) :
        /\ norm_call' = NormCall("_build_comparison_data",
                                 [income |-> income, latest |-> latest],
                                 Return(_build_comparison_data(latest, income)))
        /\ UNCHANGED OutsideNorm

NormInit == KlineInit

NormNext ==
    \/ Call_f
    \/ Call_pct
    \/ Call_i
    \/ Call_dec
    \/ Call_parse_date
    \/ Call_strip_change
    \/ Call_parse_scale
    \/ Call_parse_shares_raw
    \/ Call_parse_number
    \/ Call_scraper_parse_date
    \/ StoreVolume
    \/ StoreShares
    \/ StoreMarketCap
    \/ StoreRevenue
    \/ FormatIncomeStatement
    \/ GetStockStats
    \/ BuildComparisonData

SpecNorm == NormInit /\ [][NormNext]_vars

(***************************************************************************)
(* Properties of the value normalizers                                      *)
(***************************************************************************)
\* C13: every Value Normalizer function is total: for every token,
\* including null, empty, whitespace-only and non-numeric strings, it
\* returns a value or null and never raises.
C13_NormalizersTotal ==
    norm_call.fn # "" => norm_call.outcome.raised = ""

\* The calls that store a numeric field of the source
StoredFields == {"volume", "shares_basic", "market_cap", "revenue"}

\* The source has no value for the field: no cell, or a null marker
Absent(tok) == IsNone(tok) \/ Strip(Val(tok)) \in {"", "-", "n/a", "N/A"}

\* The source reports the value 0
ReportsZero(tok) ==
    /\ NotNone(tok)
    /\ NotNone(ParseFloat(Strip(Val(tok))))
    /\ Val(ParseFloat(Strip(Val(tok)))).m = 0

\* The stored value is 0: an integer for the counts, a float otherwise
StoredZero(fn, value) ==
    /\ NotNone(value)
    /\ IF fn \in {"volume", "shares_basic"} THEN Val(value) = 0
       ELSE Val(value) = Dec(0, 0)

\* C14: on ingestion null stays distinct from zero: a numeric field absent
\* from the source is stored as null and never as 0, and a field the source
\* reports as 0 is stored as 0 and never as null.
C14_NullDistinctFromZero ==
    (norm_call.fn \in StoredFields /\ norm_call.outcome.raised = "") =>
        /\ Absent(norm_call.token) => IsNone(norm_call.outcome.value)
        /\ ReportsZero(norm_call.token) =>
               StoredZero(norm_call.fn, norm_call.outcome.value)

\* The responses built from stored rows
ResponseFns == {"format_income_statement", "get_stock_stats", "_build_comparison_data"}

\* The stored column each monetary field of a response is read from
FieldSource(fn) ==
    IF fn = "format_income_statement"
    THEN { <<"revenue", "income", "revenue">>, <<"net_income", "income", "net_income">>,
           <<"eps_basic", "income", "eps_basic">> }
    ELSE IF fn = "get_stock_stats"
    THEN { <<"market_cap", "latest", "market_cap">>, <<"revenue_ttm", "income", "revenue">>,
           <<"net_income", "income", "net_income">>, <<"eps", "income", "eps_basic">> }
    ELSE { <<"stock_price", "latest", "close">>, <<"market_cap", "latest", "market_cap">>,
           <<"revenue", "income", "revenue">>, <<"net_income", "income", "net_income">>,
           <<"eps", "income", "eps_basic">> }

\* The stored value of a column of the row the response read, when the row
\* exists
StoredOf(src) == Val(norm_call.token[src[2]])[src[3]]

\* C15: on output null stays distinct from zero: for every monetary field
\* the statement and statistics responses return 0.0 when the stored value
\* is 0, and null only when the stored value is null.
C15_ZeroReturnedAsZero ==
    norm_call.fn \in ResponseFns =>
        \A src \in FieldSource(norm_call.fn) :
            NotNone(norm_call.token[src[2]]) =>
                LET returned == norm_call.outcome.value[src[1]]
                IN /\ StoredOf(src) = Some(0) => returned = Some(0)
                   /\ IsNone(returned) => IsNone(StoredOf(src))

(***************************************************************************)
(* get_stock_kline on the rows the writers can store                        *)
(***************************************************************************)
\* Largest number of stored rows
MaxStored == 2

\* The date strings of POST /stock_records/: the schema takes any string
RecordDates == {"2025-02-03", "02/04/2025", "Feb 5, 2025"}

\* str(r.date) of a stored date; the column is nullable
DateText(date) == IF IsNone(date) THEN "None" ELSE Val(date)

\* A stored row: date is None (NULL) or the stored string
StoredRow(symbol, date, q) ==
    [ symbol |-> symbol, date |-> date, open |-> q.o, high |-> q.h,
      low |-> q.l, close |-> q.c, volume |-> q.v, rsi |-> None ]

\* The rows as the handler reads them, the date as its text
ReadRows(table) ==
    [i \in 1..Len(table) |-> [table[i] EXCEPT !.date = DateText(table[i].date)]]

\* ORDER BY date ASC, a NULL date after the dated rows (the PostgreSQL order)
StoredPositions(table, row) == InsertPositions(ReadRows(table), ReadRows(<<row>>)[1])

\* The exception _get_group_key raises on a stored date, "" when it returns:
\* strptime(None, ...) is a TypeError, which `except ValueError` does not
\* catch, and the second strptime is outside any try
GroupKeyError(date) ==
    IF IsNone(date) THEN "TypeError"
    ELSE IF IsNone(StrptimeYmd(Val(date))) /\ IsNone(StrptimeMdY(Val(date)))
         THEN "ValueError"
    ELSE ""

\* get_stock_kline with its exceptions: the aggregation loop stops at the
\* first row, not skipped, whose date has no group key
KlineOutcome(table, stock_id, interval, limit) ==
    LET stock == _resolve_stock(stock_id)
        daily_results ==
            IF IsNone(stock) THEN <<>>
            ELSE SelectBySymbol(table, StrUpper(Val(stock).symbol))
        bad == { i \in 1..Len(daily_results) :
                    /\ ~SkipsRow(daily_results[i])
                    /\ GroupKeyError(daily_results[i].date) # "" }
    IN IF _get_aggregation_key(interval) # "day" /\ bad # {}
       THEN Raise(GroupKeyError(
                daily_results[CHOOSE i \in bad : \A j \in bad : i <= j].date))
       ELSE Return(get_stock_kline(ReadRows(table), stock_id, interval, limit))

\* populate_klines, loop body, for a candle without "t": date_str is None
PopulateUndated ==
    \E q \in {QuoteA, NoOpen} :
        LET row == StoredRow(FeedSymbol, None, q) IN
        /\ ~kline_call.called
        /\ Len(daily_klines) < MaxStored
        /\ \E i \in StoredPositions(daily_klines, row) :
               daily_klines' = InsertAt(daily_klines, i, row)
        /\ UNCHANGED <<kline_call, upsert_vars, table_vars, pipeline_vars>>

\* POST /stock_records/: create_stock_record stores the date string as sent
CreateStockRecord ==
    \E date \in RecordDates :
        LET row == StoredRow(FeedSymbol, Some(date), QuoteA) IN
        /\ ~kline_call.called
        /\ Len(daily_klines) < MaxStored
        /\ \A j \in 1..Len(daily_klines) : daily_klines[j].date # row.date
        /\ \E i \in StoredPositions(daily_klines, row) :
               daily_klines' = InsertAt(daily_klines, i, row)
        /\ UNCHANGED <<kline_call, upsert_vars, table_vars, pipeline_vars>>

\* GET /stocks/{stock_id}/klines on the stored rows
GetStoredKline ==
    \E stock_id \in StockIds : \E interval \in Intervals : \E limit \in 1..MaxLimit :
        /\ ~kline_call.called
        /\ kline_call' =
              [ called   |-> TRUE,
                stock_id |-> stock_id,
                interval |-> interval,
                limit    |-> limit,
                outcome  |-> KlineOutcome(daily_klines, stock_id, interval, limit) ]
        /\ UNCHANGED <<daily_klines, upsert_vars, table_vars, pipeline_vars>>

StoredInit == KlineInit

StoredNext ==
    \/ PopulateUndated
    \/ CreateStockRecord
    \/ GetStoredKline
    \/ ReturnKlines

SpecStored == StoredInit /\ [][StoredNext]_vars

\* C16: get_stock_kline never fails on stored data: for every set of stored
\* daily rows of an existing stock, including rows whose date is null or in
\* neither of the accepted formats, and for every interval, it returns a
\* response instead of raising.
C16_KlineNeverRaises ==
    (kline_call.called /\ NotNone(_resolve_stock(kline_call.stock_id))) =>
        kline_call.outcome.raised = ""

(***************************************************************************)
(* The batch runners: scrape.py __main__ and scraper.py scrape_all          *)
(***************************************************************************)
\* Length of STOCK_CODES, long enough for the periodic driver restart
NumSymbols == 11

\* Length of the list fetch_stock_list returns
ListLen == 3

\* `i % 10 == 0`: scrape.py restarts the driver every tenth symbol
RestartEvery == 10

\* str(e).lower() of the exceptions a symbol's scrape or persist raises:
\* a lost browser session, a dead browser, a database error
SymbolErrors == {"invalid session id", "chrome not reachable", "integrityerror"}

\* The messages after which the handler of scrape.py restarts the driver
RestartMarks == {"httpconnectionpool", "read timed out", "invalid session id"}

\* The errors that leave the browser unusable
DriverErrors == {"invalid session id", "chrome not reachable"}

\* What scrape_stock_data followed by process_stock_data can raise ("" for
\* none) with the driver in the given state
BodyOutcomes(driver) ==
    IF driver = "dead" THEN DriverErrors ELSE {""} \cup SymbolErrors

\* The driver at the top of iteration i (enumerate index)
DriverAtTop(i, driver) ==
    IF i > 0 /\ i % RestartEvery = 0 THEN "live" ELSE driver

\* The driver after the body: the handler restarts it on a restart mark
DriverAfter(driver, raised) ==
    IF raised \in RestartMarks THEN "live"
    ELSE IF raised \in DriverErrors THEN "dead"
    ELSE driver

\* The exception that leaves the scrape.py loop body: the try/except Exception
\* around scrape_stock_data and process_stock_data ends in `continue`
MainBody_NoExcept(raised) == raised

MainBody(raised) == ""

\* What a scrape_one body does: "" it commits, "unreachable" it returns
\* early, otherwise the exception it raises
OneOutcomes == {"", "unreachable", "integrityerror", "keyerror"}

\* The exception that leaves scrape_one: `except Exception` rolls back,
\* `finally` closes the session
scrape_one(outcome) == ""

\* The exception that leaves the as_completed loop for one future:
\* fut.result() re-raises the task's exception inside a try/except Exception
FutureResult(raised) == ""

BatchStart(runner, n, workers) ==
    [ pc       |-> "running",
      runner   |-> runner,
      workers  |-> workers,
      n        |-> n,
      i        |-> 0,
      attempts |-> [p \in 1..n |-> 0],
      failed   |-> {},
      running  |-> {},
      driver   |-> "live" ]

\* python scrape.py
BeginMain ==
    /\ batch.pc = "idle"
    /\ batch' = BatchStart("scrape.py", NumSymbols, 1)
    /\ UNCHANGED OutsideBatch

\* scrape_all(workers): workers = 1 is the sequential loop
BeginScrapeAll ==
    \E workers \in 1..2 :
        /\ batch.pc = "idle"
        /\ batch' = BatchStart("scrape_all", ListLen, workers)
        /\ UNCHANGED OutsideBatch

\* One iteration of `for i, symbol in enumerate(STOCK_CODES)`
MainIteration ==
    /\ batch.pc = "running"
    /\ batch.runner = "scrape.py"
    /\ batch.i < batch.n
    /\ LET driver == DriverAtTop(batch.i, batch.driver)
           p == batch.i + 1
       IN \E raised \in BodyOutcomes(driver) :
            batch' =
              [ batch EXCEPT
                  !.pc = IF MainBody(raised) = "" THEN "running" ELSE "aborted",
                  !.i = p,
                  !.attempts[p] = @ + 1,
                  !.failed = IF raised = "" THEN @ ELSE @ \cup {p},
                  !.driver = DriverAfter(driver, raised) ]
    /\ UNCHANGED OutsideBatch

\* One iteration of `for i, s in enumerate(stocks, 1)`, workers = 1
ScrapeAllIteration ==
    /\ batch.pc = "running"
    /\ batch.runner = "scrape_all"
    /\ batch.workers = 1
    /\ batch.i < batch.n
    /\ LET p == batch.i + 1 IN
       \E outcome \in OneOutcomes :
            batch' =
              [ batch EXCEPT
                  !.pc = IF scrape_one(outcome) = "" THEN "running" ELSE "aborted",
                  !.i = p,
                  !.attempts[p] = @ + 1,
                  !.failed = IF outcome = "" THEN @ ELSE @ \cup {p} ]
    /\ UNCHANGED OutsideBatch

\* A worker thread takes one submitted scrape_one, workers > 1
PoolTaskStart ==
    /\ batch.pc = "running"
    /\ batch.runner = "scrape_all"
    /\ batch.workers > 1
    /\ Cardinality(batch.running) < batch.workers
    /\ \E p \in 1..batch.n :
        /\ batch.attempts[p] = 0
        /\ batch' = [ batch EXCEPT !.attempts[p] = @ + 1,
                                   !.running = @ \cup {p} ]
    /\ UNCHANGED OutsideBatch

\* The task ends and the as_completed loop takes its future
PoolTaskDone ==
    /\ batch.pc = "running"
    /\ batch.runner = "scrape_all"
    /\ \E p \in batch.running : \E outcome \in OneOutcomes :
        batch' =
          [ batch EXCEPT
              !.pc = IF FutureResult(scrape_one(outcome)) = "" THEN "running"
                     ELSE "aborted",
              !.i = @ + 1,
              !.running = @ \ {p},
              !.failed = IF outcome = "" THEN @ ELSE @ \cup {p} ]
    /\ UNCHANGED OutsideBatch

\* The loop is exhausted: `finally` of scrape.py, return of scrape_all
BatchEnd ==
    /\ batch.pc = "running"
    /\ batch.i = batch.n
    /\ batch' = [ batch EXCEPT !.pc = "done" ]
    /\ UNCHANGED OutsideBatch

BatchInit == KlineInit

BatchNext ==
    \/ BeginMain
    \/ BeginScrapeAll
    \/ MainIteration
    \/ ScrapeAllIteration
    \/ PoolTaskStart
    \/ PoolTaskDone
    \/ BatchEnd

SpecBatch == BatchInit /\ [][BatchNext]_vars

\* The runner keeps taking steps: a for loop over a finite list, a pool that
\* runs every submitted task
FairSpecBatch == SpecBatch /\ WF_vars(BatchNext)

\* Every symbol of the list attempted exactly once
AttemptedOnce == \A p \in 1..batch.n : batch.attempts[p] = 1

Workers == 2

\* The rows of the list page, one listed company each
Listed ==
    << [symbol |-> "Mtnn", name |-> "MTN Nigeria"],
       [symbol |-> "UBA", name |-> "United Bank for Africa"],
       [symbol |-> "ZENITHBANK", name |-> "Zenith Bank"],
       [symbol |-> "GTCO", name |-> "Guaranty Trust"] >>

\* fetch_stock_list(): symbol and name of each row
StockList == SubSeq(Listed, 1, ListLen)

\* symbol.upper() of each invocation
UpperSymbols == [p \in 1..Len(StockList) |-> StrUpper(StockList[p].symbol)]

\* The dates of the history page of every symbol
HistoryDates == {"2025-02-03", "2025-02-04"}

\* The database before the run: empty, or holding MTNN from an earlier run.
\* `by` is the invocation that inserted the row, 0 for an earlier run.
EarlierDbs ==
    { [ stocks |-> {}, prices |-> {}, seq |-> 1 ],
      [ stocks |-> { [id |-> 1, symbol |-> "MTNN", name |-> "MTNN", by |-> 0] },
        prices |-> { [stock_id |-> 1, date |-> "2025-02-03", by |-> 0] },
        seq    |-> 2 ] }

\* db.query(Stock).filter_by(symbol=symbol).first()
FindStock_AnySymbol(stocks, symbol) ==
    IF stocks = {} THEN None
    ELSE Some(CHOOSE r \in stocks : \A q \in stocks : r.id <= q.id)

FindStock(stocks, symbol) ==
    LET hits == { r \in stocks : r.symbol = symbol }
    IN IF hits = {} THEN None
       ELSE Some(CHOOSE r \in hits : \A q \in hits : r.id <= q.id)

\* upsert_stock: the row it adds, or the found row with its name set
upsert_stock(stocks, seq, symbol, name, by) ==
    LET stock == FindStock(stocks, symbol)
    IN IF IsNone(stock)
       THEN [id |-> seq, symbol |-> symbol, name |-> name, by |-> by]
       ELSE [Val(stock) EXCEPT !.name = name]

\* save_prices: the rows of the dates the stock does not have yet
save_prices(prices, stock_id, dates, by) ==
    LET existing == { r.date : r \in { q \in prices : q.stock_id = stock_id } }
    IN { [stock_id |-> stock_id, date |-> d, by |-> by] : d \in dates \ existing }

\* The database after the session's commit
Committed(db, stock, rows) ==
    [ stocks |-> { r \in db.stocks : r.id # stock.id } \cup {stock},
      prices |-> db.prices \cup rows,
      seq    |-> IF stock.id >= db.seq THEN stock.id + 1 ELSE db.seq ]

\* scrape_one run alone on the database: its commit, or its rollback
ScrapeOneAlone(db, p, fails) ==
    LET stock == upsert_stock(db.stocks, db.seq, UpperSymbols[p],
                              StockList[p].name, p)
        rows == save_prices(db.prices, stock.id, HistoryDates, p)
    IN IF fails THEN db ELSE Committed(db, stock, rows)

\* The sequential loop of scrape_all over the list from position p
RECURSIVE SequentialRun(_, _, _)
SequentialRun(db, fails, p) ==
    IF p > Len(StockList) THEN db
    ELSE SequentialRun(ScrapeOneAlone(db, p, fails[p]), fails, p + 1)

\* What is persisted for each symbol: the stock and the dates of its prices.
\* Ids come from a sequence and depend on the order of the inserts.
Persisted(db) ==
    { [ symbol |-> r.symbol, name |-> r.name,
        dates  |-> { q.date : q \in { x \in db.prices : x.stock_id = r.id } } ]
      : r \in db.stocks }

\* A submitted scrape_one
Submitted(fails) ==
    [ pc |-> "submitted", fails |-> fails, error |-> "", stock |-> None,
      rows |-> {}, read |-> {}, wrote |-> {} ]

InFlight(tasks) ==
    { p \in DOMAIN tasks : tasks[p].pc \in {"queried", "flushed", "saved"} }

\* The database an invocation sees
PoolDb == [ stocks |-> pool.stocks, prices |-> pool.prices, seq |-> pool.seq ]

\* scrape_all(workers = 2): every scrape_one is submitted to the pool
SubmitAll ==
    \E db \in EarlierDbs : \E fails \in [1..Len(StockList) -> BOOLEAN] :
        /\ pool.pc = "idle"
        /\ pool' = [ pc     |-> "running",
                     stocks |-> db.stocks,
                     prices |-> db.prices,
                     seq    |-> db.seq,
                     before |-> db,
                     tasks  |-> [p \in 1..Len(StockList) |-> Submitted(fails[p])] ]
        /\ UNCHANGED OutsidePool

\* A free worker starts scrape_one(p): upsert_stock queries and sets the row
TaskUpsertStock(p) ==
    /\ pool.pc = "running"
    /\ pool.tasks[p].pc = "submitted"
    /\ Cardinality(InFlight(pool.tasks)) < Workers
    /\ LET symbol == UpperSymbols[p]
           found == FindStock(pool.stocks, symbol)
           stock == upsert_stock(pool.stocks, pool.seq, symbol, StockList[p].name, p)
       IN pool' = [ pool EXCEPT
                      !.tasks[p].pc = "queried",
                      !.tasks[p].stock = Some(stock),
                      !.tasks[p].read =
                          @ \cup (IF IsNone(found) THEN {} ELSE {Val(found).symbol}) ]
    /\ UNCHANGED OutsidePool

\* db.flush(): the INSERT takes the next id of the sequence; stocks.symbol is
\* unique, so a row another session inserted with the symbol fails the INSERT
\* (it waits for that session to end first)
TaskFlush(p) ==
    /\ pool.pc = "running"
    /\ pool.tasks[p].pc = "queried"
    /\ LET stock == Val(pool.tasks[p].stock)
           insert == stock.by = p
           pending == { q \in InFlight(pool.tasks) \ {p} :
                          /\ pool.tasks[q].pc # "queried"
                          /\ Val(pool.tasks[q].stock).by = q
                          /\ Val(pool.tasks[q].stock).symbol = stock.symbol }
           taken == \E r \in pool.stocks : r.symbol = stock.symbol
       IN /\ insert => pending = {}
          /\ pool' =
               IF insert /\ taken
               THEN [ pool EXCEPT !.tasks[p].pc = "rolled back",
                                  !.tasks[p].error = "IntegrityError",
                                  !.seq = @ + 1 ]
               ELSE [ pool EXCEPT
                        !.tasks[p].pc = "flushed",
                        !.tasks[p].stock =
                            IF insert THEN Some([stock EXCEPT !.id = pool.seq]) ELSE @,
                        !.tasks[p].wrote = @ \cup {stock.symbol},
                        !.seq = IF insert THEN @ + 1 ELSE @ ]
    /\ UNCHANGED OutsidePool

\* save_prices(db, stock.id, prices)
TaskSavePrices(p) ==
    /\ pool.pc = "running"
    /\ pool.tasks[p].pc = "flushed"
    /\ LET stock == Val(pool.tasks[p].stock) IN
       pool' = [ pool EXCEPT
                   !.tasks[p].pc = "saved",
                   !.tasks[p].rows = save_prices(pool.prices, stock.id, HistoryDates, p) ]
    /\ UNCHANGED OutsidePool

\* db.commit()
TaskCommit(p) ==
    /\ pool.pc = "running"
    /\ pool.tasks[p].pc = "saved"
    /\ ~pool.tasks[p].fails
    /\ LET db == Committed(PoolDb, Val(pool.tasks[p].stock), pool.tasks[p].rows) IN
       pool' = [ pool EXCEPT !.tasks[p].pc = "committed",
                             !.stocks = db.stocks,
                             !.prices = db.prices ]
    /\ UNCHANGED OutsidePool

\* A later step of the invocation raises: db.rollback()
TaskRollback(p) ==
    /\ pool.pc = "running"
    /\ pool.tasks[p].pc = "saved"
    /\ pool.tasks[p].fails
    /\ pool' = [ pool EXCEPT !.tasks[p].pc = "rolled back",
                             !.tasks[p].error = "Exception" ]
    /\ UNCHANGED OutsidePool

\* as_completed is exhausted
PoolEnd ==
    /\ pool.pc = "running"
    /\ \A p \in DOMAIN pool.tasks : pool.tasks[p].pc \in {"committed", "rolled back"}
    /\ pool' = [ pool EXCEPT !.pc = "done" ]
    /\ UNCHANGED OutsidePool

UpsertStockStep == \E p \in 1..Len(StockList) : TaskUpsertStock(p)
FlushStep == \E p \in 1..Len(StockList) : TaskFlush(p)
SavePricesStep == \E p \in 1..Len(StockList) : TaskSavePrices(p)
CommitStep == \E p \in 1..Len(StockList) : TaskCommit(p)
RollbackStep == \E p \in 1..Len(StockList) : TaskRollback(p)

PoolInit == KlineInit

PoolNext ==
    \/ SubmitAll
    \/ UpsertStockStep
    \/ FlushStep
    \/ SavePricesStep
    \/ CommitStep
    \/ RollbackStep
    \/ PoolEnd

SpecPool == PoolInit /\ [][PoolNext]_vars

\* The invocation's own symbol
OwnSymbol(p) == UpperSymbols[p]

\* C18: scrape_one invocations run in parallel by scrape_all (workers > 1)
\* are independent: under every interleaving, an invocation reads and writes
\* only rows of its own symbol's stock, and the rows persisted for each
\* symbol equal those a sequential run over the same list would persist (no
\* lost update, no duplicate row, no invocation failing because of another).
C18_ParallelAsSequential ==
    pool.pc # "idle" =>
        /\ \A p \in DOMAIN pool.tasks :
              /\ pool.tasks[p].read \subseteq {OwnSymbol(p)}
              /\ pool.tasks[p].wrote \subseteq {OwnSymbol(p)}
              /\ pool.tasks[p].error # "IntegrityError"
        /\ \A r, q \in pool.stocks : r.symbol = q.symbol => r = q
        /\ \A r, q \in pool.prices :
              (r.stock_id = q.stock_id /\ r.date = q.date) => r = q
        /\ pool.pc = "done" =>
              Persisted(PoolDb) =
                  Persisted(SequentialRun(pool.before,
                                          [p \in DOMAIN pool.tasks |-> pool.tasks[p].fails],
                                          1))

\* A finished run in which one invocation was rolled back and two others
\* inserted their stocks in the opposite order of the list
C18_Witness ==
    /\ pool.pc = "done"
    /\ \E p \in DOMAIN pool.tasks : pool.tasks[p].pc = "rolled back"
    /\ \E r, q \in pool.stocks : 0 < r.by /\ r.by < q.by /\ q.id < r.id

(***************************************************************************)
(* save_statistics: the 'current' row of stock_ratios                       *)
(***************************************************************************)
\* Rows of stock_ratios at most
MaxRatioRows == 3

\* The stocks of the table
RatioStocks == {1, 2}

\* The columns of StockRatio a statistics page can fill (hasattr(rat, k))
RatioColumns == {"pe_ratio", "roe"}

\* The keys of the dict scrape_statistics returns: as_of, fields of STAT_MAP
\* that are columns of StockRatio, and forward_pe, which is not
StatKeys == {"as_of", "pe_ratio", "roe", "forward_pe"}

\* scrape_statistics(url): {} when the page is not fetched, otherwise
\* as_of = date.today() and each field as parse_number gave it
StatDict(d, pe, roe) ==
    [k \in StatKeys |->
        CASE k = "as_of" -> Some(d)
          [] k = "pe_ratio" -> pe
          [] k = "roe" -> roe
          [] OTHER -> Some(9)]

StatDicts ==
    { [k \in {} |-> None],
      StatDict("2025-11-05", Some(1), Some(3)),
      StatDict("2025-11-06", Some(2), None),
      StatDict("2025-11-06", None, None) }

\* One period of scrape_ratios: period_type is always 'annual'
AnnualPeriods ==
    { [period_end |-> "2024-12-31", period_type |-> "annual", pe_ratio |-> Some(pe)]
      : pe \in {1} }

\* StockRatio(stock_id=..., period_ending=..., period_type=...)
StockRatio(id, stock_id, period_ending, period_type) ==
    [ id |-> id, stock_id |-> stock_id, period_ending |-> period_ending,
      period_type |-> period_type, pe_ratio |-> None, roe |-> None ]

\* query(StockRatio).filter(stock_id == ..., period_type == 'current').first():
\* the position of the row, 0 for none
FindCurrent_None(rows, stock_id) == 0

FindCurrent(rows, stock_id) ==
    LET hits == { i \in 1..Len(rows) :
                    rows[i].stock_id = stock_id /\ rows[i].period_type = "current" }
    IN IF hits = {} THEN 0 ELSE CHOOSE i \in hits : \A j \in hits : i <= j

\* The query of save_financial_ratios, on stock, period end and period type
FindPeriod(rows, stock_id, pe, pt) ==
    LET hits == { i \in 1..Len(rows) :
                    /\ rows[i].stock_id = stock_id
                    /\ rows[i].period_ending = pe
                    /\ rows[i].period_type = pt }
    IN IF hits = {} THEN 0 ELSE CHOOSE i \in hits : \A j \in hits : i <= j

\* `for k, v in data.items(): if v is not None and hasattr(rat, k): setattr`
SetSupplied(rat, data) ==
    [ f \in DOMAIN rat |->
        IF f \in RatioColumns /\ f \in DOMAIN data /\ NotNone(data[f])
        THEN data[f] ELSE rat[f] ]

save_statistics(rows, stock_id, data) ==
    IF DOMAIN data = {} THEN rows
    ELSE LET as_of == Val(data["as_of"])
             i == FindCurrent(rows, stock_id)
         IN IF i = 0
            THEN Append(rows, SetSupplied(
                     StockRatio(Len(rows) + 1, stock_id, as_of, "current"), data))
            ELSE [rows EXCEPT ![i] =
                     SetSupplied([rows[i] EXCEPT !.period_ending = as_of], data)]

\* save_financial_ratios for one period
SaveRatioRow(rows, stock_id, p) ==
    LET i == FindPeriod(rows, stock_id, p.period_end, p.period_type)
        data == [k \in {"pe_ratio"} |-> p.pe_ratio]
    IN IF i = 0
       THEN Append(rows, SetSupplied(
                StockRatio(Len(rows) + 1, stock_id, p.period_end, p.period_type), data))
       ELSE [rows EXCEPT ![i] = SetSupplied(rows[i], data)]

\* The unique constraint uq_ratio_period on the rows
RatioUnique(rows) ==
    \A i, j \in 1..Len(rows) :
        ( /\ rows[i].stock_id = rows[j].stock_id
          /\ rows[i].period_ending = rows[j].period_ending
          /\ rows[i].period_type = rows[j].period_type ) => i = j

\* scrape_one, step 5: save_financial_ratios(db, stock.id, ratio_periods)
SaveAnnualRatios ==
    \E stock_id \in RatioStocks : \E p \in AnnualPeriods :
        LET rows == SaveRatioRow(snapshot.rows, stock_id, p) IN
        /\ Len(rows) <= MaxRatioRows
        /\ RatioUnique(rows)
        /\ snapshot' = [ rows |-> rows,
                         call |-> [ fn |-> "save_financial_ratios",
                                    stock_id |-> stock_id,
                                    before |-> snapshot.rows ] ]
        /\ UNCHANGED OutsideSnapshot

\* scrape_one, step 6: save_statistics(db, stock.id, stat_data)
SaveStatistics ==
    \E stock_id \in RatioStocks : \E data \in StatDicts :
        LET rows == save_statistics(snapshot.rows, stock_id, data) IN
        /\ Len(rows) <= MaxRatioRows
        /\ RatioUnique(rows)
        /\ snapshot' = [ rows |-> rows,
                         call |-> [ fn |-> "save_statistics",
                                    stock_id |-> stock_id,
                                    data |-> data,
                                    before |-> snapshot.rows ] ]
        /\ UNCHANGED OutsideSnapshot

SnapshotInit == KlineInit

SnapshotNext ==
    \/ SaveAnnualRatios
    \/ SaveStatistics

SpecSnapshot == SnapshotInit /\ [][SnapshotNext]_vars

\* The 'current' rows of a stock
CurrentRows(rows, stock_id) ==
    { i \in 1..Len(rows) :
        rows[i].stock_id = stock_id /\ rows[i].period_type = "current" }

\* The last call was save_statistics with a non-empty dict
StatisticsSaved ==
    /\ snapshot.call.fn = "save_statistics"
    /\ DOMAIN snapshot.call.data # {}

\* C19: the 'current' ratio snapshot is a single continuously overwritten
\* row: after any sequence of save_statistics calls for a stock there is at
\* most one StockRatio row with period_type 'current' for it, each call sets
\* that row's period_ending to the new as_of date and overwrites the supplied
\* non-null fields in place, and the stock's historical annual/FY ratio rows
\* are left unchanged.
C19_SingleCurrentRow ==
    /\ \A stock_id \in RatioStocks :
           Cardinality(CurrentRows(snapshot.rows, stock_id)) <= 1
    /\ StatisticsSaved =>
         LET call == snapshot.call
             was == CurrentRows(call.before, call.stock_id)
             now == CurrentRows(snapshot.rows, call.stock_id)
         IN /\ now # {}
            /\ was # {} => now = was
            /\ \A i \in now :
                 /\ snapshot.rows[i].period_ending = Val(call.data["as_of"])
                 /\ \A f \in RatioColumns :
                      snapshot.rows[i][f] =
                        IF NotNone(call.data[f]) THEN call.data[f]
                        ELSE IF was = {} THEN None
                        ELSE call.before[i][f]
            /\ \A i \in 1..Len(call.before) :
                 i \notin was => snapshot.rows[i] = call.before[i]
            /\ Len(snapshot.rows) = Len(call.before) + (IF was = {} THEN 1 ELSE 0)

\* A call that moved an existing 'current' row to a new as_of date and gave
\* it a new pe_ratio, its roe kept, beside an annual row of the stock
C19_Witness ==
    /\ StatisticsSaved
    /\ \E i \in CurrentRows(snapshot.call.before, snapshot.call.stock_id) :
         /\ snapshot.call.before[i].period_ending # snapshot.rows[i].period_ending
         /\ snapshot.call.before[i].pe_ratio # snapshot.rows[i].pe_ratio
         /\ IsNone(snapshot.call.data["roe"])
         /\ NotNone(snapshot.rows[i].roe)
    /\ \E j \in 1..Len(snapshot.rows) :
         /\ snapshot.rows[j].stock_id = snapshot.call.stock_id
         /\ snapshot.rows[j].period_type = "annual"

(***************************************************************************)
(* _pct: percentages as fractions                                           *)
(***************************************************************************)
\* a = b / 100, for two decimals
Hundredth(a, b) == a.m * Pow10(b.e) * 100 = b.m * Pow10(a.e)

\* abs(v) > 1.5, for a decimal
AboveThreshold(v) == 2 * Abs(v.m) > 3 * Pow10(v.e)

\* The token of the last call and the value _f reads in it
PctToken == norm_call.token
PctValue == _f_str(norm_call.token)
PctResult == norm_call.outcome.value

\* C20: parsePercent (_pct) returns value/100 when the token contains '%';
\* otherwise it returns the value unchanged when its absolute value is <= 1.5
\* and value/100 when it is greater; it returns null for a null or
\* unparseable token. Examples: '25.88%' gives 0.2588, '0.12' gives 0.12,
\* '45' gives 0.45. (nan and inf, which float() reads, are their own
\* hundredth.)
C20_PercentAsFraction ==
    norm_call.fn = "_pct" =>
        /\ norm_call.outcome.raised = ""
        /\ IsNone(PctValue) => IsNone(PctResult)
        /\ NotNone(PctValue) =>
             /\ NotNone(PctResult)
             /\ IF IsSpecial(Val(PctValue)) THEN PctResult = PctValue
                ELSE IF StrContains(Val(PctToken), "%") \/ AboveThreshold(Val(PctValue))
                     THEN /\ ~IsSpecial(Val(PctResult))
                          /\ Hundredth(Val(PctResult), Val(PctValue))
                     ELSE PctResult = PctValue
        /\ PctToken = Some("25.88%") => PctResult = Some(Dec(2588, 4))
        /\ PctToken = Some("0.12") => PctResult = Some(Dec(12, 2))
        /\ PctToken = Some("45") => PctResult = Some(Dec(45, 2))

\* _pct called on a token without '%' whose value is above 1.5
C20_Witness ==
    /\ norm_call.fn = "_pct"
    /\ NotNone(PctValue)
    /\ ~IsSpecial(Val(PctValue))
    /\ ~StrContains(Val(PctToken), "%")
    /\ AboveThreshold(Val(PctValue))
    /\ Hundredth(Val(PctResult), Val(PctValue))

(***************************************************************************)
(* One pipeline invocation and its session: process_stock_data (scrape.py)  *)
(* and scrape_one (scraper.py)                                              *)
(***************************************************************************)
\* Invocations in a row on the same database
MaxInvocations == 2

\* The symbols of the invocations
PipelineSymbols == {"MTNN", "UBA"}

\* The upserts with upsert_price called last
ProcessSections_PriceLast == <<"income", "balance", "cashflow", "ratios", "price">>

\* process_stock_data: the upserts after upsert_stock, in the order of the
\* calls
ProcessSections == <<"price", "income", "balance", "cashflow", "ratios">>

\* scrape_one: saves after upsert_stock, in the order of the calls (history,
\* financials, ratios, statistics)
OneSections == <<"prices", "financials", "ratios", "statistics">>

\* The saves of scrape_one that run only when the page was discovered
OptionalSections == {"prices", "statistics"}

SectionsOf(pipeline) ==
    IF pipeline = "process_stock_data" THEN ProcessSections ELSE OneSections

\* stock.id after the flush: the id of the row found, or the next id of the
\* sequence for the row added
FlushedId_NoFlush(found, seq) == 0

FlushedId(found, seq) == IF IsNone(found) THEN seq ELSE Val(found).id

\* upsert_stock and the flush: the database of the session and the stock
UpsertStockRow(db, symbol) ==
    LET found == FindStock(db.stocks, symbol)
        id == FlushedId(found, db.seq)
    IN [ db |-> IF IsNone(found)
                THEN [db EXCEPT !.stocks = @ \cup {[id |-> id, symbol |-> symbol]},
                                !.seq = @ + 1]
                ELSE db,
         stock |-> [id |-> id, symbol |-> symbol] ]

\* The row a section writes for the stock: upsert_price of scrape.py keys its
\* row by stock.symbol and sets no stock_id, every other writer by stock.id
SectionRow(section, stock, n) ==
    IF section = "price"
    THEN [section |-> section, stock_id |-> 0, symbol |-> stock.symbol, by |-> n]
    ELSE [section |-> section, stock_id |-> stock.id, symbol |-> "", by |-> n]

\* The upsert of a section: the row of the key is replaced or added
WriteRow(db, row) ==
    [db EXCEPT !.rows =
        { r \in @ : ~( /\ r.section = row.section
                       /\ r.stock_id = row.stock_id
                       /\ r.symbol = row.symbol ) } \cup {row}]

\* session.rollback(): the database as it was when the transaction began
Rollback_Keep(db, start) == db

Rollback(db, start) == start

\* A new invocation on the database the last one left
Invocation(pipeline, symbol) ==
    [ pc |-> "stock", pipeline |-> pipeline, n |-> session.n + 1,
      symbol |-> symbol, stock |-> None, next |-> 1, written |-> <<>>,
      db |-> session.db, start |-> session.db,
      raised |-> "", escaped |-> FALSE, result |-> "" ]

\* The invocation is over
Ended(result, raised, escaped, db) ==
    [session EXCEPT !.pc = "idle", !.result = result, !.raised = raised,
                    !.escaped = escaped, !.db = db]

\* process_stock_data(raw_data, symbol): parse_raw_data, Session(engine),
\* session.begin()
ProcessOpen ==
    \E symbol \in {None} \cup { Some(x) : x \in PipelineSymbols } :
        /\ session.pc = "idle"
        /\ session.n < MaxInvocations
        /\ session' = Invocation("process_stock_data", symbol)
        /\ UNCHANGED OutsideSession

\* upsert_stock returns None: "Skipping - no symbol", return
ProcessSkip ==
    /\ session.pc = "stock"
    /\ session.pipeline = "process_stock_data"
    /\ IsNone(session.symbol)
    /\ session' = Ended("skipped", "", FALSE, session.db)
    /\ UNCHANGED OutsideSession

\* upsert_stock(session, parsed): the stock is found or added, and flushed
ProcessUpsertStock ==
    /\ session.pc = "stock"
    /\ session.pipeline = "process_stock_data"
    /\ NotNone(session.symbol)
    /\ LET u == UpsertStockRow(session.db, Val(session.symbol)) IN
       session' = [session EXCEPT !.pc = "sections", !.db = u.db,
                                  !.stock = Some(u.stock),
                                  !.written = Append(@, "stock")]
    /\ UNCHANGED OutsideSession

\* The next upsert of process_stock_data
ProcessWrite ==
    /\ session.pc = "sections"
    /\ session.pipeline = "process_stock_data"
    /\ session.next <= Len(ProcessSections)
    /\ LET section == ProcessSections[session.next] IN
       session' = [session EXCEPT
                     !.db = WriteRow(@, SectionRow(section, Val(session.stock), session.n)),
                     !.written = Append(@, section),
                     !.next = @ + 1]
    /\ UNCHANGED OutsideSession

\* A step inside `with session.begin()` raises: the block rolls back and the
\* exception leaves process_stock_data
ProcessRaise ==
    /\ session.pc \in {"stock", "sections"}
    /\ session.pipeline = "process_stock_data"
    /\ session' = Ended("rolled back", "Exception", TRUE,
                        Rollback(session.db, session.start))
    /\ UNCHANGED OutsideSession

\* The end of `with session.begin()`: commit
ProcessCommit ==
    /\ session.pc = "sections"
    /\ session.pipeline = "process_stock_data"
    /\ session.next > Len(ProcessSections)
    /\ session' = Ended("committed", "", FALSE, session.db)
    /\ UNCHANGED OutsideSession

\* scrape_one(symbol): db = Session(), symbol.upper(), fetch(base_url)
OneOpen ==
    \E symbol \in PipelineSymbols :
        /\ session.pc = "idle"
        /\ session.n < MaxInvocations
        /\ session' = Invocation("scrape_one", Some(symbol))
        /\ UNCHANGED OutsideSession

\* The overview page is not reachable: return, and `finally` closes the
\* session
OneUnreachable ==
    /\ session.pc = "stock"
    /\ session.pipeline = "scrape_one"
    /\ session' = Ended("skipped", "", FALSE, Rollback(session.db, session.start))
    /\ UNCHANGED OutsideSession

\* upsert_stock(db, symbol, name, overview_data) and db.flush()
OneUpsertStock ==
    /\ session.pc = "stock"
    /\ session.pipeline = "scrape_one"
    /\ LET u == UpsertStockRow(session.db, Val(session.symbol)) IN
       session' = [session EXCEPT !.pc = "sections", !.db = u.db,
                                  !.stock = Some(u.stock),
                                  !.written = Append(@, "stock")]
    /\ UNCHANGED OutsideSession

\* The next save of scrape_one
OneWrite ==
    /\ session.pc = "sections"
    /\ session.pipeline = "scrape_one"
    /\ session.next <= Len(OneSections)
    /\ LET section == OneSections[session.next] IN
       session' = [session EXCEPT
                     !.db = WriteRow(@, SectionRow(section, Val(session.stock), session.n)),
                     !.written = Append(@, section),
                     !.next = @ + 1]
    /\ UNCHANGED OutsideSession

\* The page of the next save was not discovered (or skip_history)
OneSkipPage ==
    /\ session.pc = "sections"
    /\ session.pipeline = "scrape_one"
    /\ session.next <= Len(OneSections)
    /\ OneSections[session.next] \in OptionalSections
    /\ session' = [session EXCEPT !.next = @ + 1]
    /\ UNCHANGED OutsideSession

\* A step of the try block raises, db.commit() included: except Exception
\* rolls back, `finally` closes the session
OneRaise ==
    /\ session.pc \in {"stock", "sections"}
    /\ session.pipeline = "scrape_one"
    /\ session' = Ended("rolled back", "Exception",
                        scrape_one("Exception") # "",
                        Rollback(session.db, session.start))
    /\ UNCHANGED OutsideSession

\* db.commit()
OneCommit ==
    /\ session.pc = "sections"
    /\ session.pipeline = "scrape_one"
    /\ session.next > Len(OneSections)
    /\ session' = Ended("committed", "", FALSE, session.db)
    /\ UNCHANGED OutsideSession

SessionInit == KlineInit

SessionNext ==
    \/ ProcessOpen
    \/ ProcessSkip
    \/ ProcessUpsertStock
    \/ ProcessWrite
    \/ ProcessRaise
    \/ ProcessCommit
    \/ OneOpen
    \/ OneUnreachable
    \/ OneUpsertStock
    \/ OneWrite
    \/ OneSkipPage
    \/ OneRaise
    \/ OneCommit

SpecSession == SessionInit /\ [][SessionNext]_vars

\* s is a prefix of t
IsPrefix(s, t) == Len(s) <= Len(t) /\ s = SubSeq(t, 1, Len(s))

\* The sections process_stock_data has written so far, the stock aside
SectionsWritten == SelectSeq(session.written, LAMBDA x : x # "stock")

\* C21: within the pipeline of one symbol (process_stock_data) the sections
\* are written in the fixed order income, balance sheet, cash flow, ratios,
\* price: no section is written before every section earlier in that order
\* has been written.
C21_PriceLast ==
    session.pipeline = "process_stock_data" =>
        IsPrefix(SectionsWritten, <<"income", "balance", "cashflow", "ratios", "price">>)

\* C21, as the code has it: within process_stock_data the sections are
\* written in the fixed order price, income, balance sheet, cash flow, ratios
C21_PriceFirst ==
    session.pipeline = "process_stock_data" =>
        IsPrefix(SectionsWritten, <<"price", "income", "balance", "cashflow", "ratios">>)

\* A committed process_stock_data that wrote the five sections
C21_Witness ==
    /\ session.pipeline = "process_stock_data"
    /\ session.result = "committed"
    /\ Len(SectionsWritten) = 5

\* The rows the invocation under way, or the last one, wrote
OwnRows == { r \in session.db.rows : r.by = session.n }

\* C22: in both pipelines (process_stock_data and scrape_one) the Stock row
\* of the symbol is looked up or created and flushed, so that it has an id,
\* before any price, statement, ratio or other row that references that id
\* is written; when no stock can be resolved (no symbol, or the overview page
\* is unreachable), no dependent row is written at all.
C22_StockBeforeDependents ==
    session.n > 0 =>
        /\ session.written # <<>> =>
             /\ session.written[1] = "stock"
             /\ NotNone(session.stock)
             /\ Val(session.stock).id > 0
        /\ IsNone(session.stock) => OwnRows = {}
        /\ NotNone(session.stock) =>
             \A r \in OwnRows :
                 IF r.section = "price"
                 THEN r.symbol = Val(session.stock).symbol
                 ELSE r.stock_id = Val(session.stock).id
        /\ \A r \in session.db.rows :
             \E stock \in session.db.stocks :
                 IF r.section = "price" THEN stock.symbol = r.symbol
                 ELSE stock.id = r.stock_id
        /\ session.result = "skipped" =>
             /\ session.written = <<>>
             /\ session.db = session.start

\* An invocation that added the second stock of the database and wrote a row
\* that references its id
C22_Witness ==
    /\ session.n = 2
    /\ NotNone(session.stock)
    /\ Val(session.stock).id = 2
    /\ \E r \in OwnRows : r.stock_id = 2

\* An invocation for which no stock was resolved, on a database with rows
C22_WitnessSkipped ==
    /\ session.result = "skipped"
    /\ session.db.rows # {}

(***************************************************************************)
(* Properties of the scan of _parse_fin_table                               *)
(***************************************************************************)
\* The text has a column header line
HasHeader == HeaderIndex(ParsedLines) # 0

\* The first line of the data rows
ParsedStart == DataStart(ParsedLines, HeaderIndex(ParsedLines))

\* The label lines that are followed by a line of numbers with more tokens
\* than there are period columns; the line is one the scan takes as a label:
\* the first data line, the line after a line of numbers, or a line that
\* is no value line
LongRows(lines, keys, start) ==
    { k \in start..(Len(lines) - 1) :
        /\ ~IsNumericLine(lines[k])
        /\ \/ k = start
           \/ IsNumericLine(lines[k - 1])
           \/ ~IsValueLine(lines[k], Len(keys))
        /\ IsNumericLine(lines[k + 1])
        /\ HasNumericChar(lines[k + 1])
        /\ Len(Split(lines[k + 1])) > Len(keys) }

\* The row of the label line k is in the table, its first tokens under the
\* period keys in order
RowKept(table, lines, keys, k) ==
    /\ DictHas(table, lines[k])
    /\ LET tokens == Split(lines[k + 1])
           row == DictAt(table, lines[k])
       IN \A i \in 1..Len(keys) : DictAt(row, keys[i]) = Some(tokens[i])

ColumnKeys ==
    IF Val(fin_table) = <<>> THEN {}
    ELSE { Val(fin_table)[1].v[i].k : i \in 1..Len(Val(fin_table)[1].v) }

\* The period keys that _parse_date parses
DatedKeys == { k \in ColumnKeys : NotNone(_parse_date(Some(k))) }

LabelPositions(lines, start) ==
    { k \in start..Len(lines) : (Len(lines) - k) % 2 = 1 }

\* C25: the label/value pairing of _parse_fin_table never slips along the
\* scan: every key of the returned table is a label line of the input and
\* never a value line (such as 'n/a n/a n/a'), the values stored under it are
\* tokens of the line immediately after that label, and every label line
\* that is immediately followed by its line of numbers appears in the table,
\* whatever the preceding rows contain.
C25_PairingNeverSlips ==
    (Parsed /\ HasHeader) =>
        LET lines == ParsedLines
            keys == ParsedKeys
            table == Val(fin_table)
            labels == LabelPositions(lines, ParsedStart)
        IN /\ \A e \in 1..Len(table) :
                 \E k \in labels :
                    /\ lines[k] = table[e].k
                    /\ \A i \in 1..Len(table[e].v) :
                          \/ IsNone(table[e].v[i].v)
                          \/ \E j \in 1..Len(Split(lines[k + 1])) :
                                table[e].v[i].v = Some(Split(lines[k + 1])[j])
           /\ \A k \in labels :
                 IsValueLine(lines[k + 1], Len(keys)) => DictHas(table, lines[k])

(***************************************************************************)
(* Properties of the period keys of the columns                             *)
(***************************************************************************)
\* The columns of the header line of the parsed text
HeaderColumns == PeriodLabels(Split(ParsedLines[HeaderIndex(ParsedLines)]), 1)

\* C28: distinct columns of a financial table keep distinct period keys:
\* each row of the table returned by _parse_fin_table has as many period
\* keys as the table has header columns, so no column's value is overwritten
\* by another column's value, including when two columns carry the same
\* Period Ending date.
C28_OneKeyPerColumn ==
    (Parsed /\ HasHeader) =>
        LET table == Val(fin_table)
            columns == HeaderColumns
        IN \A e \in 1..Len(table) : Len(table[e].v) = Len(columns)

(***************************************************************************)
(* Properties of the row labels of the statement pages                      *)
(***************************************************************************)
\* The field of the mapping entry of a row: that of the longest key of
\* FINANCIAL_MAP the label contains
OwnField(label) ==
    LET low == StrLower(label)
        hits == { i \in 1..Len(FINANCIAL_MAP) : StrContains(low, FINANCIAL_MAP[i][1]) }
    IN IF hits = {} THEN None
       ELSE Some(FINANCIAL_MAP[CHOOSE i \in hits : \A j \in hits :
                                  Len(FINANCIAL_MAP[j][1]) <= Len(FINANCIAL_MAP[i][1])][2])

\* The periods hold, in the field of each row's own mapping entry, the
\* numbers of the row
RowsInOwnFields(page, periods) ==
    \A j \in 1..Len(page.rows) :
        LET own == OwnField(page.rows[j].label) IN
        (/\ NotNone(own)
         /\ \A j2 \in 1..Len(page.rows) :
               j2 # j => OwnField(page.rows[j2].label) # own) =>
            \A i \in 1..Len(page.date_headers) :
                LET dh == page.date_headers[i]
                    cell == CellOf(page.date_headers, page.rows[j], dh)
                IN (NotNone(cell) /\ NotNone(parse_number(Val(cell)))) =>
                      DictAt(periods, PeriodKey(dh)).f[Val(own)] = parse_number(Val(cell))

\* C26: in scrape_financial_page every statement row is written to the
\* field of its own mapping entry: a row whose label contains a longer
\* mapping key ('revenue growth') is never written to the field of a shorter
\* key contained in it ('revenue'), so after the page is processed the
\* revenue field of a period holds the value of the Revenue row of that
\* period.
C26_RowToOwnField ==
    merge_run.pc # "idle" =>
        \A n \in 1..Len(merge_run.pages) :
            \A page \in PageInputs(merge_run.slugs[n]) :
                (/\ NotNone(page)
                 /\ scrape_financial_page(page, merge_run.pages[n].ptype)
                       = merge_run.pages[n].periods) =>
                    RowsInOwnFields(Val(page), merge_run.pages[n].periods)

(***************************************************************************)
(* Properties of the prices of a candle                                     *)
(***************************************************************************)
\* low <= open <= high and low <= close <= high
WellFormed(low, open, high, close) ==
    /\ low <= open /\ open <= high
    /\ low <= close /\ close <= high

\* Every stored row with open, high, low and close is well formed
StoredWellFormed ==
    \A i \in 1..Len(daily_klines) :
        HasOhlc(daily_klines[i]) =>
            WellFormed(Val(daily_klines[i].low), Val(daily_klines[i].open),
                       Val(daily_klines[i].high), Val(daily_klines[i].close))

\* C27: every candle returned by get_stock_kline, for every interval,
\* satisfies low <= open <= high and low <= close <= high, provided every
\* stored row that has all four of open, high, low and close non-null
\* satisfies it.
C27_CandlesWellFormed ==
    (Answered /\ StoredWellFormed) =>
        \A j \in 1..Len(CallKlines) :
            WellFormed(CallKlines[j].low, CallKlines[j].open,
                       CallKlines[j].high, CallKlines[j].close)

(***************************************************************************)
(* Properties of the transaction of scrape_one                              *)
(***************************************************************************)
\* The invocation of scrape_one has returned
OneEnded == session.pipeline = "scrape_one" /\ session.pc = "idle"

\* The rows and stocks persisted are those persisted when the invocation
\* began
NothingPersisted ==
    /\ session.db.stocks = session.start.stocks
    /\ session.db.rows = session.start.rows

\* Every write of the invocation is persisted
AllPersisted ==
    /\ \E st \in session.db.stocks : st = Val(session.stock)
    /\ \A i \in 1..Len(session.written) :
          session.written[i] # "stock" =>
              \E r \in session.db.rows :
                  /\ r.section = session.written[i]
                  /\ r.stock_id = Val(session.stock).id
                  /\ r.by = session.n

\* C29: scrape_one is all-or-nothing for its symbol: all writes of one
\* invocation are committed together in a single commit at the end, and if
\* any step raises before that commit the session is rolled back, so none of
\* that invocation's writes are persisted, the rows persisted by earlier
\* invocations are unchanged, and the exception does not reach the caller.
C29_AllOrNothing ==
    session.pipeline = "scrape_one" =>
        /\ \A r \in session.start.rows : r.by < session.n
        /\ (OneEnded /\ session.result = "committed") => AllPersisted
        /\ (OneEnded /\ session.result # "committed") => NothingPersisted
        /\ (OneEnded /\ session.raised # "") =>
              /\ session.result = "rolled back"
              /\ ~session.escaped

\* The second invocation raised after it had added its stock and written a
\* section, on a database that holds the rows of the first
C29_Witness ==
    /\ OneEnded
    /\ session.n = 2
    /\ session.raised # ""
    /\ Len(session.written) >= 2
    /\ session.start.rows # {}
    /\ Val(session.stock) \notin session.start.stocks
    /\ NothingPersisted

(***************************************************************************)
(* Properties of the order of the group keys                                *)
(***************************************************************************)
\* The group keys of the rows the loop of get_stock_kline walks, in the
\* order of the walk
WalkKeys == [ i \in 1..Len(OhlcRows) |-> _get_group_key(OhlcRows[i].date, CallAggKey) ]

\* The rows read are in ascending order of their YYYY-MM-DD dates
AscendingDates ==
    \A i \in 1..(Len(kline_call.daily_results) - 1) :
        /\ NotNone(StrptimeYmd(kline_call.daily_results[i].date))
        /\ NotNone(StrptimeYmd(kline_call.daily_results[i + 1].date))
        /\ StrLess(kline_call.daily_results[i].date,
                   kline_call.daily_results[i + 1].date)

\* C30: for daily rows whose dates are YYYY-MM-DD strings in ascending
\* order, the group keys computed by _get_group_key are non-decreasing along
\* the walk for week, month and year, also across a year boundary where the
\* ISO year of a date differs from its calendar year: the rows of each bucket
\* are contiguous and group_order lists the buckets in strictly increasing
\* chronological order.
C30_GroupKeysMonotone ==
    (AnsweredAgg /\ AscendingDates) =>
        LET keys == WalkKeys
            order == BucketKeys
        IN /\ \A i \in 1..(Len(keys) - 1) : StrLessEq(keys[i], keys[i + 1])
           /\ \A i \in 1..Len(keys) : \A k \in i..Len(keys) :
                 keys[i] = keys[k] => \A j \in i..k : keys[j] = keys[i]
           /\ \A i \in 1..(Len(order) - 1) : StrLess(order[i], order[i + 1])

\* A week walk over 2024-12-27, 2024-12-30 and 2025-01-02: the second date
\* is in ISO year 2025, in the bucket of the third
C30_Witness ==
    /\ AnsweredAgg /\ CallAggKey = "week" /\ AscendingDates
    /\ Len(OhlcRows) = 3
    /\ OhlcRows[2].date = "2024-12-30"
    /\ WalkKeys = <<"2024-W52", "2025-W01", "2025-W01">>
    /\ BucketKeys = <<"2024-W52", "2025-W01">>

====
